---- MODULE Spec2Model ----
(***************************************************************************)
(* Route matching engine of get-beta-poc (src/lib/matching.ts, the         *)
(* combined MHD + order version, and the earlier MHD-only version), and    *)
(* the useRoutes hook that stores the routes (src/hooks/useRoutes.ts).     *)
(*                                                                         *)
(* Numbers.  A JavaScript number is modelled by an exact rational          *)
(* [n, d] in lowest terms with d > 0; +Infinity is [n |-> 1, d |-> 0].      *)
(* Math.sqrt has no rational result in general:                            *)
(*   - normalizePoints keeps its one square root (the RMS radius)          *)
(*     symbolic: a normalized coordinate is the signed surd                *)
(*     sg * sqrt(n / d), again in lowest terms, so equality of two         *)
(*     normalized point sets is equality of real numbers;                  *)
(*   - distance() evaluates its square root (and the surds it is given)    *)
(*     rounded down to a multiple of 1 / PREC.                             *)
(* Floating-point rounding of +, -, *, / is modelled by Fl, used by        *)
(* normalizePointsRounded only.                                            *)
(***************************************************************************)
EXTENDS Integers, Sequences, FiniteSets, TLC

\* storedRoutes: the route collection held by the application (the routes
\* state of useRoutes)
\* pc, args, ret: the call being made ("call" before, "done" after), its
\* arguments and what it returned; for searchRoutes, args.queryPoints is the
\* query as passed and args.queryPointsAfter the same array after the call
VARIABLES storedRoutes, pc, args, ret

\* the storage and browser state behind useRoutes:
\* savedRoutes: the route list in routes.json, as last written by saveRoutes
\* imageFiles: the filenames present in the images directory
\* blobUrlCache: the module-level Map from filename to blob URL
\* objectUrls: the blob URLs created so far (a URL is its index), each with
\*   the filename it was created for and whether it has been revoked
\* calls: the calls of the hook's functions made so far, each with its
\*   arguments, the routes value its closure captured, and its position
VARIABLES savedRoutes, imageFiles, blobUrlCache, objectUrls, calls

hookVars == <<savedRoutes, imageFiles, blobUrlCache, objectUrls, calls>>

vars == <<storedRoutes, pc, args, ret, hookVars>>

\* the hook is not mounted
NoHook ==
  /\ savedRoutes = <<>>
  /\ imageFiles = {}
  /\ blobUrlCache = <<>>
  /\ objectUrls = <<>>
  /\ calls = <<>>

(***************************************************************************)
(* Bounds of the model.                                                    *)
(***************************************************************************)
\* normalizePoints: longest point set, largest coordinate, scale and shift
NormMaxLen == 3
NormMaxCoord == 1
\* Math.sqrt in distance() is evaluated to a multiple of 1 / PREC
PREC == 100

(***************************************************************************)
(* Exact arithmetic on JavaScript numbers.                                 *)
(***************************************************************************)
Abs(k) == IF k < 0 THEN -k ELSE k

Sign(k) == IF k < 0 THEN -1 ELSE IF k = 0 THEN 0 ELSE 1

RECURSIVE GCD(_, _)
GCD(a, b) == IF b = 0 THEN a ELSE GCD(b, a % b)

\* the number n / d (d # 0) in lowest terms
Rat(n, d) ==
  LET g == GCD(Abs(n), Abs(d))
  IN  [n |-> Sign(d) * (n \div g), d |-> Abs(d) \div g]

Num(k) == [n |-> k, d |-> 1]

Infinity == [n |-> 1, d |-> 0]

RatAdd(a, b) ==
  IF a.d = 0 \/ b.d = 0 THEN Infinity
  ELSE Rat(a.n * b.d + b.n * a.d, a.d * b.d)

RatSub(a, b) == Rat(a.n * b.d - b.n * a.d, a.d * b.d)

RatMul(a, b) == Rat(a.n * b.n, a.d * b.d)

\* a / b for b # 0 finite
RatDiv(a, b) ==
  IF a.d = 0 THEN Infinity
  ELSE Rat(a.n * b.d, a.d * b.n)

\* a <= b and a < b, also when either is +Infinity
RatLE(a, b) == a.n * b.d <= b.n * a.d

RatLT(a, b) == ~RatLE(b, a)

RatMin(a, b) == IF RatLE(a, b) THEN a ELSE b

RatMax(a, b) == IF RatLE(a, b) THEN b ELSE a

\* Math.round: the nearest integer, a tie going up
Round(a) == (2 * a.n + a.d) \div (2 * a.d)

RECURSIVE ISqrt(_)
ISqrt(k) ==
  IF k < 2 THEN k
  ELSE LET r == 2 * ISqrt(k \div 4)
       IN  IF (r + 1) * (r + 1) <= k THEN r + 1 ELSE r

(***************************************************************************)
(* Points.  A raw point is [x, y] with rational coordinates.               *)
(***************************************************************************)
Pt(x, y) == [x |-> Num(x), y |-> Num(y)]

RECURSIVE SumSeq(_)
SumSeq(values) ==
  IF values = <<>> THEN Num(0)
  ELSE RatAdd(Head(values), SumSeq(Tail(values)))

\* mean(values)
mean(values) ==
  IF Len(values) = 0 THEN Num(0)
  ELSE RatDiv(SumSeq(values), Num(Len(values)))

\* the real number sg * sqrt(n / d), n / d in lowest terms
Surd(sg, q) == [sg |-> IF q.n = 0 THEN 0 ELSE sg, n |-> q.n, d |-> q.d]

\* the rational a as a surd
SurdOfRat(a) == Surd(Sign(a.n), RatMul(a, a))

\* mutant of DivBySqrt: divides by the mean square, the square root forgotten
DivByMeanSquare(a, q) == SurdOfRat(RatDiv(a, q))

\* a / sqrt(q) for rational a and q > 0
DivBySqrt(a, q) == Surd(Sign(a.n), RatDiv(RatMul(a, a), q))

\* mutant of normalizePoints: the rms === 0 return left out, so coincident
\* points are divided by 0 and every coordinate is 0 / 0
normalizePointsNoZeroGuard(points) ==
  IF Len(points) = 0 THEN <<>>
  ELSE IF Len(points) = 1 THEN <<[x |-> SurdOfRat(Num(0)), y |-> SurdOfRat(Num(0))]>>
  ELSE
    LET centroid == [x |-> mean([i \in DOMAIN points |-> points[i].x]),
                     y |-> mean([i \in DOMAIN points |-> points[i].y])]
        centered == [i \in DOMAIN points |->
                       [x |-> RatSub(points[i].x, centroid.x),
                        y |-> RatSub(points[i].y, centroid.y)]]
        rms2 == mean([i \in DOMAIN points |->
                        RatAdd(RatMul(centered[i].x, centered[i].x),
                               RatMul(centered[i].y, centered[i].y))])
    IN  [i \in DOMAIN points |->
           IF rms2.n = 0
           THEN [x |-> [sg |-> 0, n |-> 0, d |-> 0], y |-> [sg |-> 0, n |-> 0, d |-> 0]]
           ELSE [x |-> DivBySqrt(centered[i].x, rms2),
                 y |-> DivBySqrt(centered[i].y, rms2)]]

\* mutant of normalizePoints: a single point is returned where it is
normalizePointsKeepSingle(points) ==
  IF Len(points) = 0 THEN <<>>
  ELSE IF Len(points) = 1
  THEN <<[x |-> SurdOfRat(points[1].x), y |-> SurdOfRat(points[1].y)]>>
  ELSE
    LET centroid == [x |-> mean([i \in DOMAIN points |-> points[i].x]),
                     y |-> mean([i \in DOMAIN points |-> points[i].y])]
        centered == [i \in DOMAIN points |->
                       [x |-> RatSub(points[i].x, centroid.x),
                        y |-> RatSub(points[i].y, centroid.y)]]
        rms2 == mean([i \in DOMAIN points |->
                        RatAdd(RatMul(centered[i].x, centered[i].x),
                               RatMul(centered[i].y, centered[i].y))])
    IN  [i \in DOMAIN points |->
           IF rms2.n = 0
           THEN [x |-> SurdOfRat(centered[i].x), y |-> SurdOfRat(centered[i].y)]
           ELSE [x |-> DivBySqrt(centered[i].x, rms2),
                 y |-> DivBySqrt(centered[i].y, rms2)]]

\* normalizePoints(points): translate to the centroid, scale to RMS radius 1
normalizePoints(points) ==
  IF Len(points) = 0 THEN <<>>
  ELSE IF Len(points) = 1 THEN <<[x |-> SurdOfRat(Num(0)), y |-> SurdOfRat(Num(0))]>>
  ELSE
    LET centroid == [x |-> mean([i \in DOMAIN points |-> points[i].x]),
                     y |-> mean([i \in DOMAIN points |-> points[i].y])]
        centered == [i \in DOMAIN points |->
                       [x |-> RatSub(points[i].x, centroid.x),
                        y |-> RatSub(points[i].y, centroid.y)]]
        squaredDistances == [i \in DOMAIN points |->
                               RatAdd(RatMul(centered[i].x, centered[i].x),
                                      RatMul(centered[i].y, centered[i].y))]
        \* rms = Math.sqrt(rms2)
        rms2 == mean(squaredDistances)
    IN  IF rms2.n = 0
        THEN [i \in DOMAIN points |->
                [x |-> SurdOfRat(centered[i].x), y |-> SurdOfRat(centered[i].y)]]
        ELSE [i \in DOMAIN points |->
                [x |-> DivBySqrt(centered[i].x, rms2),
                 y |-> DivBySqrt(centered[i].y, rms2)]]

(***************************************************************************)
(* Modified Hausdorff Distance.                                            *)
(***************************************************************************)
\* Math.sqrt(r) for rational r >= 0, rounded down to a multiple of 1 / PREC
Sqrt(r) == Rat(ISqrt((r.n * PREC * PREC) \div r.d), PREC)

\* the value of the surd c, rounded towards 0 to a multiple of 1 / PREC
Approx(c) == Rat(c.sg * ISqrt((c.n * PREC * PREC) \div c.d), PREC)

ApproxPoints(P) == [i \in DOMAIN P |-> [x |-> Approx(P[i].x), y |-> Approx(P[i].y)]]

\* mutant of distance: dx used for dy
distanceXOnly(a, b) ==
  LET dx == RatSub(a.x, b.x)
      dy == RatSub(a.x, b.x)
  IN  Sqrt(RatAdd(RatMul(dx, dx), RatMul(dy, dy)))

\* distance(a, b)
distance(a, b) ==
  LET dx == RatSub(a.x, b.x)
      dy == RatSub(a.y, b.y)
  IN  Sqrt(RatAdd(RatMul(dx, dx), RatMul(dy, dy)))

\* mutant of MinSeq: Math.max for Math.min
MinSeqAsMax(values) ==
  IF values = <<>> THEN Infinity
  ELSE CHOOSE v \in {values[i] : i \in DOMAIN values} :
         \A i \in DOMAIN values : RatLE(values[i], v)

\* Math.min(...values); Infinity when there are none
RECURSIVE MinSeq(_)
MinSeq(values) ==
  IF values = <<>> THEN Infinity
  ELSE RatMin(Head(values), MinSeq(Tail(values)))

\* Math.max(...values) of a non-empty sequence
RECURSIVE MaxSeq(_)
MaxSeq(values) ==
  IF Len(values) = 1 THEN Head(values)
  ELSE RatMax(Head(values), MaxSeq(Tail(values)))

\* mutant of modifiedHausdorffDistance: the reverse direction left out
modifiedHausdorffDistanceForward(A, B) ==
  IF Len(A) = 0 \/ Len(B) = 0 THEN Infinity
  ELSE
    LET forwardDistances == [i \in DOMAIN A |->
                               MinSeq([j \in DOMAIN B |-> distance(A[i], B[j])])]
    IN  mean(forwardDistances)

\* mutant of modifiedHausdorffDistance: 0 for an empty set
modifiedHausdorffDistanceEmptyZero(A, B) ==
  IF Len(A) = 0 \/ Len(B) = 0 THEN Num(0)
  ELSE
    LET forwardDist == mean([i \in DOMAIN A |->
                               MinSeq([j \in DOMAIN B |-> distance(A[i], B[j])])])
        reverseDist == mean([j \in DOMAIN B |->
                               MinSeq([i \in DOMAIN A |-> distance(A[i], B[j])])])
    IN  RatMax(forwardDist, reverseDist)

\* modifiedHausdorffDistance(A, B)
modifiedHausdorffDistance(A, B) ==
  IF Len(A) = 0 \/ Len(B) = 0 THEN Infinity
  ELSE
    LET forwardDistances == [i \in DOMAIN A |->
                               MinSeq([j \in DOMAIN B |-> distance(A[i], B[j])])]
        forwardDist == mean(forwardDistances)
        reverseDistances == [j \in DOMAIN B |->
                               MinSeq([i \in DOMAIN A |-> distance(A[i], B[j])])]
        reverseDist == mean(reverseDistances)
    IN  RatMax(forwardDist, reverseDist)

\* mutant of distanceToSimilarity: Math.floor for Math.round
distanceToSimilarityFloor(dist, maxDistance) ==
  IF RatLE(maxDistance, dist) THEN 0
  ELSE LET similarity == RatMax(Num(0), RatSub(Num(1), RatDiv(dist, maxDistance)))
           scaled == RatMul(similarity, Num(100))
       IN  scaled.n \div scaled.d

\* maxDistance: number = 0.6
DEFAULT_MAX_DISTANCE == Rat(6, 10)

\* distanceToSimilarity(distance, maxDistance)
distanceToSimilarity(dist, maxDistance) ==
  IF RatLE(maxDistance, dist) THEN 0
  ELSE LET similarity == RatMax(Num(0), RatSub(Num(1), RatDiv(dist, maxDistance)))
       IN  Round(RatMul(similarity, Num(100)))

(***************************************************************************)
(* Dynamic Time Warping and the relative-order similarity.                 *)
(***************************************************************************)
\* mutant of AbsDiff: Math.abs left out
SignedDiff(a, b) == RatSub(a, b)

\* Math.abs(a - b)
AbsDiff(a, b) ==
  LET d == RatSub(a, b)
  IN  IF d.n < 0 THEN RatSub(Num(0), d) ELSE d

\* mutant of dtwRow: the match step dtw[i - 1][j - 1] left out
RECURSIVE dtwRowNoMatch(_, _, _, _)
dtwRowNoMatch(prevRow, ai, seqB, j) ==
  IF j = 0 THEN <<Infinity>>
  ELSE LET row == dtwRowNoMatch(prevRow, ai, seqB, j - 1)
           cost == AbsDiff(ai, seqB[j])
       IN  Append(row, RatAdd(cost, RatMin(prevRow[j + 1], row[j])))

\* mutant of dtwRow: the insertion step dtw[i - 1][j] left out
RECURSIVE dtwRowNoInsertion(_, _, _, _)
dtwRowNoInsertion(prevRow, ai, seqB, j) ==
  IF j = 0 THEN <<Infinity>>
  ELSE LET row == dtwRowNoInsertion(prevRow, ai, seqB, j - 1)
           cost == AbsDiff(ai, seqB[j])
       IN  Append(row, RatAdd(cost, RatMin(row[j], prevRow[j])))

\* cells dtw[i][0..j] of row i >= 1, given row i - 1 (cell j is element j + 1)
RECURSIVE dtwRow(_, _, _, _)
dtwRow(prevRow, ai, seqB, j) ==
  IF j = 0 THEN <<Infinity>>
  ELSE LET row == dtwRow(prevRow, ai, seqB, j - 1)
           cost == AbsDiff(ai, seqB[j])
       IN  Append(row, RatAdd(cost, RatMin(prevRow[j + 1],
                                           RatMin(row[j], prevRow[j]))))

\* row i of the DTW matrix: Infinity everywhere but dtw[0][0] = 0
RECURSIVE dtwMatrixRow(_, _, _)
dtwMatrixRow(seqA, seqB, i) ==
  IF i = 0 THEN [j \in 1..(Len(seqB) + 1) |-> IF j = 1 THEN Num(0) ELSE Infinity]
  ELSE dtwRow(dtwMatrixRow(seqA, seqB, i - 1), seqA[i], seqB, Len(seqB))

\* mutant of dtwDistance: divided by seqA.length instead of Math.max(n, m)
dtwDistanceByLengthA(seqA, seqB) ==
  LET n == Len(seqA)
      m == Len(seqB)
  IN  IF n = 0 \/ m = 0 THEN Infinity
      ELSE RatDiv(dtwMatrixRow(seqA, seqB, n)[m + 1], Num(n))

\* dtwDistance(seqA, seqB)
dtwDistance(seqA, seqB) ==
  LET n == Len(seqA)
      m == Len(seqB)
  IN  IF n = 0 \/ m = 0 THEN Infinity
      ELSE RatDiv(dtwMatrixRow(seqA, seqB, n)[m + 1], Num(IF n > m THEN n ELSE m))

\* mutant of SortByY: the points left in the order given
SortByYLeftOut(points) == points

\* [...points].sort((a, b) => a.y - b.y): a stable sort, ascending in y
RECURSIVE SortByY(_)
SortByY(points) ==
  IF points = <<>> THEN <<>>
  ELSE LET rest == SortByY(SubSeq(points, 1, Len(points) - 1))
           p == points[Len(points)]
           \* p goes after every point whose y is not greater than its own
           k == Cardinality({i \in DOMAIN rest : RatLE(rest[i].y, p.y)})
       IN  SubSeq(rest, 1, k) \o <<p>> \o SubSeq(rest, k + 1, Len(rest))

\* mutant of normalize: the sequence left as it is
normalizeLeftOut(seq) == seq

\* mutant of sortedCopy: points.sort(...), which sorts the array itself
sortedInPlace(points) == [array |-> SortByY(points), sorted |-> SortByY(points)]

\* [...points].sort(...): the copy is sorted, the array points stays as it is
sortedCopy(points) == [array |-> points, sorted |-> SortByY(points)]

\* the arrays pointsA and pointsB after relativeOrderSimilarity(pointsA, pointsB)
relativeOrderArrays(pointsA, pointsB) ==
  IF Len(pointsA) = 0 \/ Len(pointsB) = 0
  THEN [pointsA |-> pointsA, pointsB |-> pointsB]
  ELSE IF Len(pointsA) = 1 /\ Len(pointsB) = 1
  THEN [pointsA |-> pointsA, pointsB |-> pointsB]
  ELSE [pointsA |-> sortedCopy(pointsA).array, pointsB |-> sortedCopy(pointsB).array]

\* the inner normalize(seq) of relativeOrderSimilarity: min-max to 0..1
normalize(seq) ==
  LET min == MinSeq(seq)
      max == MaxSeq(seq)
  IN  IF max = min THEN [i \in DOMAIN seq |-> Rat(1, 2)]
      ELSE [i \in DOMAIN seq |-> RatDiv(RatSub(seq[i], min), RatSub(max, min))]

\* mutant of relativeOrderSimilarity: two empty sets count as a full match
relativeOrderSimilarityEmptyMatch(pointsA, pointsB) ==
  IF Len(pointsA) = 0 /\ Len(pointsB) = 0 THEN 100
  ELSE IF Len(pointsA) = 0 \/ Len(pointsB) = 0 THEN 0
  ELSE IF Len(pointsA) = 1 /\ Len(pointsB) = 1 THEN 100
  ELSE
    LET sortedA == SortByY(pointsA)
        sortedB == SortByY(pointsB)
        normA == normalize([i \in DOMAIN sortedA |-> sortedA[i].x])
        normB == normalize([i \in DOMAIN sortedB |-> sortedB[i].x])
        dist == dtwDistance(normA, normB)
    IN  IF RatLE(Num(1), dist) THEN 0
        ELSE Round(RatMul(RatSub(Num(1), dist), Num(100)))

\* relativeOrderSimilarity(pointsA, pointsB)
relativeOrderSimilarity(pointsA, pointsB) ==
  IF Len(pointsA) = 0 \/ Len(pointsB) = 0 THEN 0
  ELSE IF Len(pointsA) = 1 /\ Len(pointsB) = 1 THEN 100
  ELSE
    LET sortedA == SortByY(pointsA)
        sortedB == SortByY(pointsB)
        xSeqA == [i \in DOMAIN sortedA |-> sortedA[i].x]
        xSeqB == [i \in DOMAIN sortedB |-> sortedB[i].x]
        normA == normalize(xSeqA)
        normB == normalize(xSeqB)
        dist == dtwDistance(normA, normB)
        maxDist == Num(1)
    IN  IF RatLE(maxDist, dist) THEN 0
        ELSE Round(RatMul(RatSub(Num(1), RatDiv(dist, maxDist)), Num(100)))

\* mutant of combinedSimilarity: Math.floor for Math.round
combinedSimilarityFloor(mhdSimilarity, orderSimilarity, weights) ==
  LET sum == RatAdd(RatMul(weights.mhd, Num(mhdSimilarity)),
                    RatMul(weights.order, Num(orderSimilarity)))
  IN  sum.n \div sum.d

\* mutant of combinedSimilarity: the order weight left out
combinedSimilarityUnweightedOrder(mhdSimilarity, orderSimilarity, weights) ==
  Round(RatAdd(RatMul(weights.mhd, Num(mhdSimilarity)), Num(orderSimilarity)))

\* weights = { mhd: 0.6, order: 0.4 }
DEFAULT_WEIGHTS == [mhd |-> Rat(6, 10), order |-> Rat(4, 10)]

\* combinedSimilarity(mhdSimilarity, orderSimilarity, weights)
combinedSimilarity(mhdSimilarity, orderSimilarity, weights) ==
  Round(RatAdd(RatMul(weights.mhd, Num(mhdSimilarity)),
               RatMul(weights.order, Num(orderSimilarity))))

(***************************************************************************)
(* searchRoutes.                                                           *)
(***************************************************************************)
\* mutant of DEFAULT_OPTIONS: the weights of an earlier tuning, which do not
\* add up to 1
DEFAULT_OPTIONS_Unbalanced == [maxDistance |-> Rat(6, 10), mhdWeight |-> Rat(5, 10),
                               orderWeight |-> Rat(4, 10)]

DEFAULT_OPTIONS == [maxDistance |-> Rat(6, 10), mhdWeight |-> Rat(6, 10),
                    orderWeight |-> Rat(4, 10)]

\* the combined score of one image, the body of the inner loop
imageSimilarity(queryPoints, normalizedQuery, image, opts) ==
  LET mhd == modifiedHausdorffDistance(ApproxPoints(normalizedQuery),
                                       ApproxPoints(image.normalizedPoints))
      mhdSim == distanceToSimilarity(mhd, opts.maxDistance)
      orderSim == relativeOrderSimilarity(queryPoints, image.points)
  IN  combinedSimilarity(mhdSim, orderSim,
                         [mhd |-> opts.mhdWeight, order |-> opts.orderWeight])

\* mutant of bestOf: >= for >, so the last of several best images wins
RECURSIVE bestOfLastWins(_, _, _, _, _)
bestOfLastWins(queryPoints, normalizedQuery, images, opts, k) ==
  IF k = 0 THEN [bestSimilarity |-> 0, bestImageId |-> ""]
  ELSE LET prev == bestOfLastWins(queryPoints, normalizedQuery, images, opts, k - 1)
           similarity == imageSimilarity(queryPoints, normalizedQuery, images[k], opts)
       IN  IF similarity >= prev.bestSimilarity
           THEN [bestSimilarity |-> similarity, bestImageId |-> images[k].id]
           ELSE prev

\* mutant of bestOf: the best similarity starts below every score
RECURSIVE bestOfFromMinusOne(_, _, _, _, _)
bestOfFromMinusOne(queryPoints, normalizedQuery, images, opts, k) ==
  IF k = 0 THEN [bestSimilarity |-> -1, bestImageId |-> ""]
  ELSE LET prev == bestOfFromMinusOne(queryPoints, normalizedQuery, images, opts, k - 1)
           similarity == imageSimilarity(queryPoints, normalizedQuery, images[k], opts)
       IN  IF similarity > prev.bestSimilarity
           THEN [bestSimilarity |-> similarity, bestImageId |-> images[k].id]
           ELSE prev

\* the inner loop over route.images: [bestSimilarity, bestImageId] after the
\* first k images
RECURSIVE bestOf(_, _, _, _, _)
bestOf(queryPoints, normalizedQuery, images, opts, k) ==
  IF k = 0 THEN [bestSimilarity |-> 0, bestImageId |-> ""]
  ELSE LET prev == bestOf(queryPoints, normalizedQuery, images, opts, k - 1)
           similarity == imageSimilarity(queryPoints, normalizedQuery, images[k], opts)
       IN  IF similarity > prev.bestSimilarity
           THEN [bestSimilarity |-> similarity, bestImageId |-> images[k].id]
           ELSE prev

\* mutant of SortBySimilarity: the comparator reversed, (a, b) => a - b
RECURSIVE SortAscending(_)
SortAscending(results) ==
  IF results = <<>> THEN <<>>
  ELSE LET rest == SortAscending(SubSeq(results, 1, Len(results) - 1))
           r == results[Len(results)]
           k == Cardinality({i \in DOMAIN rest : rest[i].similarity <= r.similarity})
       IN  SubSeq(rest, 1, k) \o <<r>> \o SubSeq(rest, k + 1, Len(rest))

\* mutant of SortBySimilarity: an unstable sort, equal entries change places
RECURSIVE SortUnstable(_)
SortUnstable(results) ==
  IF results = <<>> THEN <<>>
  ELSE LET rest == SortUnstable(SubSeq(results, 1, Len(results) - 1))
           r == results[Len(results)]
           k == Cardinality({i \in DOMAIN rest : rest[i].similarity > r.similarity})
       IN  SubSeq(rest, 1, k) \o <<r>> \o SubSeq(rest, k + 1, Len(rest))

\* results.sort((a, b) => b.similarity - a.similarity): a stable sort,
\* descending in similarity
RECURSIVE SortBySimilarity(_)
SortBySimilarity(results) ==
  IF results = <<>> THEN <<>>
  ELSE LET rest == SortBySimilarity(SubSeq(results, 1, Len(results) - 1))
           r == results[Len(results)]
           k == Cardinality({i \in DOMAIN rest : rest[i].similarity >= r.similarity})
       IN  SubSeq(rest, 1, k) \o <<r>> \o SubSeq(rest, k + 1, Len(rest))

\* mutant of Slice: the end index taken as inclusive
SliceInclusive(results, maxResults) ==
  SubSeq(results, 1,
         IF maxResults + 1 < Len(results) THEN maxResults + 1 ELSE Len(results))

\* results.slice(0, maxResults) for maxResults >= 0
Slice(results, maxResults) ==
  SubSeq(results, 1, IF maxResults < Len(results) THEN maxResults ELSE Len(results))

\* the results array before it is sorted: one entry per route, in input order
scanRoutes(queryPoints, routes, opts) ==
  LET normalizedQuery == normalizePoints(queryPoints)
  IN  [r \in DOMAIN routes |->
         LET best == bestOf(queryPoints, normalizedQuery, routes[r].images, opts,
                            Len(routes[r].images))
         IN  [route |-> routes[r], similarity |-> best.bestSimilarity,
              matchedImageId |-> best.bestImageId]]

\* the array queryPoints after the first k images of a route have been scored
RECURSIVE queryAfterImages(_, _, _)
queryAfterImages(queryPoints, images, k) ==
  IF k = 0 THEN queryPoints
  ELSE relativeOrderArrays(queryAfterImages(queryPoints, images, k - 1),
                           images[k].points).pointsA

\* the array queryPoints after the first r routes have been scored
RECURSIVE queryAfterRoutes(_, _, _)
queryAfterRoutes(queryPoints, routes, r) ==
  IF r = 0 THEN queryPoints
  ELSE queryAfterImages(queryAfterRoutes(queryPoints, routes, r - 1),
                        routes[r].images, Len(routes[r].images))

\* the array routes after searchRoutes: the loop reads it, results is a new
\* array (and the one that is sorted), image.normalizedPoints is only read,
\* image.points is handed to relativeOrderSimilarity
routesAfterSearch(queryPoints, routes) ==
  [r \in DOMAIN routes |->
     LET query == queryAfterRoutes(queryPoints, routes, r - 1)
         images == routes[r].images
     IN  [routes[r] EXCEPT !.images =
            [k \in DOMAIN images |->
               [images[k] EXCEPT !.points =
                  relativeOrderArrays(queryAfterImages(query, images, k - 1),
                                      images[k].points).pointsB]]]]

\* { ...DEFAULT_OPTIONS, ...options }
MergeOptions(options) ==
  [k \in DOMAIN DEFAULT_OPTIONS |->
     IF k \in DOMAIN options THEN options[k] ELSE DEFAULT_OPTIONS[k]]

\* the default of the parameter maxResults
DEFAULT_MAX_RESULTS == 10

\* searchRoutes(queryPoints, routes, maxResults, options); maxResults is <<>>
\* when the caller omits it and <<k>> when it passes k
searchRoutes(queryPoints, routes, maxResults, options) ==
  LET opts == MergeOptions(options)
      limit == IF maxResults = <<>> THEN DEFAULT_MAX_RESULTS ELSE maxResults[1]
  IN  Slice(SortBySimilarity(scanRoutes(queryPoints, routes, opts)), limit)

(***************************************************************************)
(* normalizePoints applied to a point set and to its image under           *)
(* p |-> s * p + t.                                                        *)
(***************************************************************************)
SeqsUpTo(S, k) == UNION {[1..m -> S] : m \in 0..k}

NormCoords == 0..NormMaxCoord

NormPoints == {Pt(x, y) : x \in NormCoords, y \in NormCoords}

\* the positive scalars and the translation vectors applied
NormScales == {Rat(1, 1), Rat(1, 2), Rat(3, 1)}

NormShifts == {Pt(0, 0), Pt(1, -1), Pt(-2, 3)}

\* s * P + t
Transform(P, s, t) ==
  [i \in DOMAIN P |->
     [x |-> RatAdd(RatMul(s, P[i].x), t.x), y |-> RatAdd(RatMul(s, P[i].y), t.y)]]

InitNorm ==
  /\ NoHook
  /\ storedRoutes = <<>>
  /\ pc = "call"
  /\ args \in [fn : {"normalizePoints"},
               points : SeqsUpTo(NormPoints, NormMaxLen),
               s : NormScales,
               t : NormShifts]
  /\ ret = <<>>

NormalizeCall ==
  /\ pc = "call"
  /\ args.fn = "normalizePoints"
  /\ ret' = [out |-> normalizePoints(args.points),
             outT |-> normalizePoints(Transform(args.points, args.s, args.t))]
  /\ pc' = "done"
  /\ UNCHANGED <<storedRoutes, args, hookVars>>

NextNorm == NormalizeCall

SpecNorm == InitNorm /\ [][NextNorm]_vars

NormDone == pc = "done" /\ args.fn = "normalizePoints"

\* C7: normalizePoints(s * P + t) equals normalizePoints(P), point by point in
\* the same order, for every point set P (empty, single, coincident or not),
\* every translation t and every positive scalar s.  This is the statement
\* for normalizePoints computed with exact numbers (SpecNorm); with rounded
\* arithmetic see C7_CoincidentInvariant.
C7_TranslationScaleInvariant ==
  NormDone => ret.outT = ret.out

\* three points that do not coincide, scaled and moved
C7_Witness ==
  /\ NormDone
  /\ Len(args.points) = 3
  /\ args.points[1] # args.points[2]
  /\ args.points[2].y # args.points[3].y
  /\ args.s # Num(1)
  /\ args.t # Pt(0, 0)
  /\ ret.out[1].x.sg # 0
  /\ ret.out[3].y.sg # 0
  /\ ret.outT = ret.out

(***************************************************************************)
(* searchRoutes applied to a query and a route collection.                 *)
(***************************************************************************)
\* most routes in a collection (besides the one long collection ManyShapes)
MaxRoutes == 2

\* raw point sets, coordinates in tenths of the image size
Triangle == <<Pt(2, 2), Pt(8, 2), Pt(5, 8)>>

Square == <<Pt(2, 2), Pt(8, 2), Pt(8, 8), Pt(2, 8)>>

Diagonal == <<Pt(9, 9), Pt(1, 1)>>

AntiDiagonal == <<Pt(1, 9), Pt(9, 1)>>

Queries == {<<>>, Triangle, Diagonal, <<Pt(5, 5)>>}

\* the images of a route, each given by its marked points
RouteShapes == {<<>>, <<Triangle>>, <<Square>>, <<AntiDiagonal>>,
                <<Square, Triangle, Triangle>>}

\* one collection longer than the default limit
ManyShapes == [r \in 1..(DEFAULT_MAX_RESULTS + 2) |->
                 IF r % 4 = 0 THEN <<Triangle>>
                 ELSE IF r % 4 = 1 THEN <<Square>>
                 ELSE IF r % 4 = 3 THEN <<Square, Triangle, Triangle>>
                 ELSE IF r < DEFAULT_MAX_RESULTS THEN <<>>
                 ELSE <<AntiDiagonal>>]

\* a stored image: normalizedPoints is computed when the image is added
MkImage(r, k, points) ==
  [id |-> "img-" \o ToString(r) \o "-" \o ToString(k),
   points |-> points,
   normalizedPoints |-> normalizePoints(points)]

MkRoutes(shapes) ==
  [r \in DOMAIN shapes |->
     [id |-> "route-" \o ToString(r),
      images |-> [k \in DOMAIN shapes[r] |-> MkImage(r, k, shapes[r][k])]]]

\* options: none, the MHD-only setting, and one weight overridden (weights
\* are not validated)
SearchOptions == {<<>>,
                  [maxDistance |-> Rat(1, 2), mhdWeight |-> Rat(1, 1),
                   orderWeight |-> Rat(0, 1)],
                  [orderWeight |-> Rat(-4, 10)]}

InitSearch ==
  /\ NoHook
  /\ storedRoutes \in {MkRoutes(shapes) :
                   shapes \in SeqsUpTo(RouteShapes, MaxRoutes) \cup {ManyShapes}}
  /\ pc = "call"
  /\ args = [fn |-> "searchRoutes"]
  /\ ret = <<>>

SearchCall ==
  /\ pc = "call"
  /\ args.fn = "searchRoutes"
  /\ \E queryPoints \in Queries,
        maxResults \in {<<>>} \cup {<<k>> : k \in 0..MaxRoutes},
        options \in SearchOptions :
       /\ args' = [fn |-> "searchRoutes", queryPoints |-> queryPoints,
                   maxResults |-> maxResults, options |-> options,
                   queryPointsAfter |->
                     queryAfterRoutes(queryPoints, storedRoutes, Len(storedRoutes))]
       /\ ret' = searchRoutes(queryPoints, storedRoutes, maxResults, options)
       /\ storedRoutes' = routesAfterSearch(queryPoints, storedRoutes)
  /\ pc' = "done"
  /\ UNCHANGED hookVars

NextSearch == SearchCall

SpecSearch == InitSearch /\ [][NextSearch]_vars

(***************************************************************************)
(* Properties of searchRoutes.                                             *)
(***************************************************************************)
SearchDone == pc = "done" /\ args.fn = "searchRoutes"

\* the position of a returned route in the input collection
RouteIndex(route) == CHOOSE r \in DOMAIN storedRoutes : storedRoutes[r].id = route.id

\* the routes the result leaves out
LeftOut == {r \in DOMAIN storedRoutes :
              \A i \in DOMAIN ret : ret[i].route.id # storedRoutes[r].id}

\* the combined score of image k of a route under the call's options
ImageScore(route, k) ==
  imageSimilarity(args.queryPoints, normalizePoints(args.queryPoints),
                  route.images[k], MergeOptions(args.options))

\* the largest combined score among a route's images (0 when it has none)
MaxOfSet(S) == CHOOSE x \in S : \A y \in S : y <= x

MaxImageScore(route) ==
  IF route.images = <<>> THEN 0
  ELSE MaxOfSet({ImageScore(route, k) : k \in DOMAIN route.images})

\* the score the scan gives a route: never below 0
RouteScore(route) == MaxOfSet({0, MaxImageScore(route)})

HasExactImage(route, Q) ==
  \E k \in DOMAIN route.images :
    /\ route.images[k].points = Q
    /\ route.images[k].normalizedPoints = normalizePoints(Q)

\* C1: with default options and maxResults >= 1, a route holding an image
\* whose points are the query (normalized as stored) scores exactly 100, the
\* result starts with a score of 100, and that route stands ahead of every
\* returned route whose score is lower.
C1_ExactMatchFirst ==
  (SearchDone /\ args.options = <<>> /\ args.maxResults # <<0>>
     /\ args.queryPoints # <<>>)
  => \A r \in DOMAIN storedRoutes :
       HasExactImage(storedRoutes[r], args.queryPoints)
       => /\ RouteScore(storedRoutes[r]) = 100
          /\ ret # <<>>
          /\ ret[1].similarity = 100
          /\ \A i \in DOMAIN ret :
               ret[i].route.id = storedRoutes[r].id => ret[i].similarity = 100
          /\ \A j \in DOMAIN ret :
               ret[j].similarity < 100
               => \E i \in 1..(j - 1) : ret[i].route.id = storedRoutes[r].id

\* the triangle query finds the stored triangle first with 100 and the
\* square, listed before it, second with a lower nonzero score
C1_Witness ==
  /\ SearchDone
  /\ args.options = <<>>
  /\ args.queryPoints = Triangle
  /\ Len(storedRoutes) = 2
  /\ storedRoutes[1].images # <<>> /\ storedRoutes[1].images[1].points = Square
  /\ HasExactImage(storedRoutes[2], Triangle)
  /\ Len(ret) = 2
  /\ ret[1].route.id = storedRoutes[2].id
  /\ ret[1].similarity = 100
  /\ ret[2].similarity < 100 /\ ret[2].similarity > 0

\* C2 as claimed: every returned route with an image carries the maximum
\* combined score of its images and the id of an image that attains it.
C2_BestImageAsClaimed ==
  SearchDone
  => \A i \in DOMAIN ret :
       ret[i].route.images # <<>>
       => /\ ret[i].similarity = MaxImageScore(ret[i].route)
          /\ \E k \in DOMAIN ret[i].route.images :
               /\ ret[i].route.images[k].id = ret[i].matchedImageId
               /\ ImageScore(ret[i].route, k) = ret[i].similarity

\* C2 amended: the similarity is the larger of 0 and the maximum combined
\* score of the route's images; when it is above 0 the matched image is the
\* first image of that route that attains it, and when it is 0 the matched
\* image id is the empty string.
C2_BestImage ==
  SearchDone
  => \A i \in DOMAIN ret :
       ret[i].route.images # <<>>
       => /\ ret[i].similarity = RouteScore(ret[i].route)
          /\ ret[i].similarity > 0
             => \E k \in DOMAIN ret[i].route.images :
                  /\ ret[i].route.images[k].id = ret[i].matchedImageId
                  /\ ImageScore(ret[i].route, k) = ret[i].similarity
                  /\ \A h \in 1..(k - 1) :
                       ImageScore(ret[i].route, h) < ret[i].similarity
          /\ ret[i].similarity = 0 => ret[i].matchedImageId = ""

\* a route whose best image is not its first one
C2_Witness ==
  /\ SearchDone
  /\ \E i \in DOMAIN ret :
       /\ Len(ret[i].route.images) >= 2
       /\ ret[i].similarity = 100
       /\ ret[i].matchedImageId = ret[i].route.images[2].id
       /\ ImageScore(ret[i].route, 1) < 100
       /\ ImageScore(ret[i].route, 3) = 100

\* C3: the result is in non-increasing order of similarity, and no route
\* left out scores more than the last returned one.
C3_SortedDescending ==
  SearchDone
  => /\ \A i, j \in DOMAIN ret : i < j => ret[i].similarity >= ret[j].similarity
     /\ ret # <<>>
        => \A r \in LeftOut : RouteScore(storedRoutes[r]) <= ret[Len(ret)].similarity

\* a truncated result whose order differs from the input order
C3_Witness ==
  /\ SearchDone
  /\ Len(ret) >= 2
  /\ LeftOut # {}
  /\ \E i, j \in DOMAIN ret :
       /\ i < j
       /\ ret[i].similarity > ret[j].similarity
       /\ RouteIndex(ret[i].route) > RouteIndex(ret[j].route)
  /\ \E r \in LeftOut : RouteScore(storedRoutes[r]) < ret[Len(ret)].similarity

\* C4: the result holds min(maxResults, number of routes) entries, 10 standing
\* for an omitted maxResults, each a distinct route of the input.
C4_ResultCount ==
  SearchDone
  => LET limit == IF args.maxResults = <<>> THEN 10 ELSE args.maxResults[1]
         count == IF limit < Len(storedRoutes) THEN limit ELSE Len(storedRoutes)
     IN  /\ Len(ret) = count
         /\ \A i \in DOMAIN ret :
              \E r \in DOMAIN storedRoutes : ret[i].route = storedRoutes[r]
         /\ \A i, j \in DOMAIN ret : i # j => ret[i].route.id # ret[j].route.id
         /\ storedRoutes = <<>> => ret = <<>>

\* more than 10 routes searched without maxResults: 10 come back
C4_Witness ==
  /\ SearchDone
  /\ args.maxResults = <<>>
  /\ Len(storedRoutes) > 10
  /\ Len(ret) = 10

\* C5: routes with equal similarity keep their input order, and a route left
\* out comes later in the input than every returned route of its score.
C5_StableTies ==
  SearchDone
  => /\ \A i, j \in DOMAIN ret :
          (i < j /\ ret[i].similarity = ret[j].similarity)
          => RouteIndex(ret[i].route) < RouteIndex(ret[j].route)
     /\ \A r \in LeftOut : \A i \in DOMAIN ret :
          ret[i].similarity = RouteScore(storedRoutes[r])
          => RouteIndex(ret[i].route) < r

\* two tied nonzero routes returned ahead of a route listed before them,
\* and a third route of the same score cut off
C5_Witness ==
  /\ SearchDone
  /\ Len(ret) >= 2
  /\ ret[1].similarity = ret[2].similarity
  /\ ret[1].similarity > 0
  /\ \E r \in LeftOut : r < RouteIndex(ret[1].route)
  /\ \E r \in LeftOut : RouteScore(storedRoutes[r]) = ret[Len(ret)].similarity

\* C6: a route without images gets similarity 0 and the empty matched image
\* id, and no route of nonzero similarity comes after it.
C6_NoImages ==
  SearchDone
  => \A i \in DOMAIN ret :
       ret[i].route.images = <<>>
       => /\ ret[i].similarity = 0
          /\ ret[i].matchedImageId = ""
          /\ \A j \in DOMAIN ret : i < j => ret[j].similarity = 0

\* a route without images, first in the input, returned behind a matching one
C6_Witness ==
  /\ SearchDone
  /\ storedRoutes # <<>>
  /\ storedRoutes[1].images = <<>>
  /\ Len(ret) = 2
  /\ ret[1].similarity > 0
  /\ ret[2].route.id = storedRoutes[1].id
  /\ ret[2].similarity = 0

(***************************************************************************)
(* modifiedHausdorffDistance applied to two point sets, and again after    *)
(* one point of B has been moved.                                          *)
(***************************************************************************)
\* longest point set handed to modifiedHausdorffDistance
MhdMaxLen == 2

MhdPoints == {Pt(0, 0), Pt(2, 0), Pt(0, 1), Pt(1, 2)}

InitMhd ==
  /\ NoHook
  /\ storedRoutes = <<>>
  /\ pc = "call"
  /\ args \in [fn : {"modifiedHausdorffDistance"},
               A : SeqsUpTo(MhdPoints, MhdMaxLen),
               B : SeqsUpTo(MhdPoints, MhdMaxLen)]
  /\ ret = <<>>

\* modifiedHausdorffDistance(A, B) and modifiedHausdorffDistance(B, A)
MhdCall ==
  /\ pc = "call"
  /\ args.fn = "modifiedHausdorffDistance"
  /\ ret' = [ab |-> modifiedHausdorffDistance(args.A, args.B),
             ba |-> modifiedHausdorffDistance(args.B, args.A)]
  /\ pc' = "done"
  /\ UNCHANGED <<storedRoutes, args, hookVars>>

\* modifiedHausdorffDistance(A, B') for B' = B with point k moved to p
MhdMovedCall ==
  /\ pc = "done"
  /\ args.fn = "modifiedHausdorffDistance"
  /\ \E k \in DOMAIN args.B, p \in MhdPoints :
       ret' = [ab |-> ret.ab, ba |-> ret.ba, k |-> k, p |-> p,
               abMoved |-> modifiedHausdorffDistance(args.A, [args.B EXCEPT ![k] = p])]
  /\ pc' = "moved"
  /\ UNCHANGED <<storedRoutes, args, hookVars>>

NextMhd == MhdCall \/ MhdMovedCall

SpecMhd == InitMhd /\ [][NextMhd]_vars

MhdDone == pc \in {"done", "moved"} /\ args.fn = "modifiedHausdorffDistance"

MhdMoved == pc = "moved" /\ args.fn = "modifiedHausdorffDistance"

\* the squared Euclidean distance, exactly
SqDist(a, b) ==
  LET dx == RatSub(a.x, b.x)
      dy == RatSub(a.y, b.y)
  IN  RatAdd(RatMul(dx, dx), RatMul(dy, dy))

\* the mean distance from the points of A to their nearest points of B
MeanNearest(A, B) ==
  mean([i \in DOMAIN A |-> MinSeq([j \in DOMAIN B |-> distance(A[i], B[j])])])

\* C8: modifiedHausdorffDistance(A, B) = modifiedHausdorffDistance(B, A) for
\* all point sets, empty ones and sets of different sizes included.
C8_MhdSymmetric ==
  MhdDone => ret.ab = ret.ba

\* sets of different sizes whose two directed distances differ
C8_Witness ==
  /\ MhdDone
  /\ Len(args.A) = 1 /\ Len(args.B) = 2
  /\ MeanNearest(args.A, args.B) # MeanNearest(args.B, args.A)
  /\ RatLT(Num(0), ret.ab)
  /\ ret.ab = ret.ba

\* the points of A nearest to b
NearestIn(A, b) ==
  {i \in DOMAIN A : \A h \in DOMAIN A : RatLE(SqDist(A[i], b), SqDist(A[h], b))}

\* C9 as claimed: moving one point b of B strictly farther from its nearest
\* neighbour in A never decreases modifiedHausdorffDistance(A, B).
C9_FartherAsClaimed ==
  (MhdMoved /\ args.A # <<>>
     /\ \A i \in NearestIn(args.A, args.B[ret.k]) :
          RatLT(SqDist(args.A[i], args.B[ret.k]), SqDist(args.A[i], ret.p)))
  => RatLE(ret.ab, ret.abMoved)

\* C9 amended: moving one point b of B to a position at least as far from
\* every point of A as b was never decreases modifiedHausdorffDistance(A, B).
C9_FartherFromAll ==
  (MhdMoved /\ args.A # <<>>
     /\ \A i \in DOMAIN args.A :
          RatLE(SqDist(args.A[i], args.B[ret.k]), SqDist(args.A[i], ret.p)))
  => RatLE(ret.ab, ret.abMoved)

\* a point moved farther from both points of A, and the distance grows
C9_Witness ==
  /\ MhdMoved
  /\ Len(args.A) = 2 /\ Len(args.B) = 2
  /\ args.A[1] # args.A[2]
  /\ \A i \in DOMAIN args.A :
       RatLT(SqDist(args.A[i], args.B[ret.k]), SqDist(args.A[i], ret.p))
  /\ RatLT(ret.ab, ret.abMoved)

(***************************************************************************)
(* dtwDistance applied to two sequences, and again after the second has    *)
(* been replaced by one of the same length.                                *)
(***************************************************************************)
\* longest sequence handed to dtwDistance
DtwMaxLen == 3

DtwValuesA == {Num(0), Num(1)}

DtwValuesB == {Num(0), Num(1), Num(2)}

InitDtw ==
  /\ NoHook
  /\ storedRoutes = <<>>
  /\ pc = "call"
  /\ args \in [fn : {"dtwDistance"},
               a : SeqsUpTo(DtwValuesA, DtwMaxLen),
               b : SeqsUpTo(DtwValuesB, DtwMaxLen)]
  /\ ret = <<>>

\* dtwDistance(a, b) and dtwDistance(b, a)
DtwCall ==
  /\ pc = "call"
  /\ args.fn = "dtwDistance"
  /\ ret' = [ab |-> dtwDistance(args.a, args.b),
             ba |-> dtwDistance(args.b, args.a)]
  /\ pc' = "done"
  /\ UNCHANGED <<storedRoutes, args, hookVars>>

\* dtwDistance(a, b2) for another sequence b2 as long as a and b
DtwOtherCall ==
  /\ pc = "done"
  /\ args.fn = "dtwDistance"
  /\ args.a # <<>>
  /\ Len(args.a) = Len(args.b)
  /\ \E b2 \in [DOMAIN args.b -> DtwValuesB] :
       ret' = [ab |-> ret.ab, ba |-> ret.ba, b2 |-> b2,
               ab2 |-> dtwDistance(args.a, b2)]
  /\ pc' = "other"
  /\ UNCHANGED <<storedRoutes, args, hookVars>>

NextDtw == DtwCall \/ DtwOtherCall

SpecDtw == InitDtw /\ [][NextDtw]_vars

DtwOther == pc = "other" /\ args.fn = "dtwDistance"

\* the gap between two numbers
Gap(x, y) == IF RatLE(y, x) THEN RatSub(x, y) ELSE RatSub(y, x)

\* C10 as claimed: for equally long non-empty a, b and b2, if the gap
\* |a[i] - b2[i]| is at least |a[i] - b[i]| at every index i then
\* dtwDistance(a, b2) >= dtwDistance(a, b).
C10_WiderGapsAsClaimed ==
  (DtwOther
     /\ \A i \in DOMAIN args.a :
          RatLE(Gap(args.a[i], args.b[i]), Gap(args.a[i], ret.b2[i])))
  => RatLE(ret.ab, ret.ab2)

\* C10 amended: the same conclusion when the gap |a[i] - b2[j]| is at least
\* |a[i] - b[j]| at every pair of indices i, j.
C10_WiderGapsAllPairs ==
  (DtwOther
     /\ \A i \in DOMAIN args.a : \A j \in DOMAIN args.b :
          RatLE(Gap(args.a[i], args.b[j]), Gap(args.a[i], ret.b2[j])))
  => RatLE(ret.ab, ret.ab2)

\* three elements, every pairwise gap at least as wide, the distance larger
C10_Witness ==
  /\ DtwOther
  /\ Len(args.a) = 3
  /\ args.a[1] # args.a[3]
  /\ ret.b2 # args.b
  /\ \A i \in DOMAIN args.a : \A j \in DOMAIN args.b :
       RatLE(Gap(args.a[i], args.b[j]), Gap(args.a[i], ret.b2[j]))
  /\ RatLT(Num(0), ret.ab)
  /\ RatLT(ret.ab, ret.ab2)

DtwDone == pc \in {"done", "other"} /\ args.fn = "dtwDistance"

\* C11: dtwDistance(a, b) = dtwDistance(b, a) for all sequences a and b,
\* sequences of different lengths included.
C11_DtwSymmetric ==
  DtwDone => ret.ab = ret.ba

\* sequences of different lengths at a finite distance above 0
C11_Witness ==
  /\ DtwDone
  /\ Len(args.a) = 3 /\ Len(args.b) = 2
  /\ args.a[1] # args.a[2]
  /\ args.b[1] # args.b[2]
  /\ ret.ab.d # 0
  /\ RatLT(Num(0), ret.ab)
  /\ ret.ba = ret.ab

(***************************************************************************)
(* distanceToSimilarity and combinedSimilarity applied to numbers.         *)
(***************************************************************************)
\* similarity scores handed to combinedSimilarity
Similarities == 0..100

\* weights: left out, the default, the pairs of the tests, and pairs that
\* do not add up to 1 or are negative (weights are not validated)
WeightPairs == {[mhd |-> Rat(6, 10), order |-> Rat(4, 10)],
                [mhd |-> Rat(7, 10), order |-> Rat(3, 10)],
                [mhd |-> Rat(1, 2), order |-> Rat(1, 2)],
                [mhd |-> Rat(1, 3), order |-> Rat(1, 3)],
                [mhd |-> Num(1), order |-> Num(1)],
                [mhd |-> Rat(6, 10), order |-> Rat(-4, 10)]}

\* distances: multiples of 1/40 up to 5/2, and Infinity
Distances == {Rat(k, 40) : k \in 0..100} \cup {Infinity}

MaxDistances == {Rat(1, 2), Rat(6, 10), Num(1), Num(2)}

InitScore ==
  /\ NoHook
  /\ storedRoutes = <<>>
  /\ pc = "call"
  /\ args \in [fn : {"combinedSimilarity"},
               mhdSimilarity : Similarities,
               orderSimilarity : Similarities,
               weights : {<<>>} \cup {<<w>> : w \in WeightPairs}]
             \cup
             [fn : {"distanceToSimilarity"},
              distance : Distances,
              maxDistance : {<<>>} \cup {<<m>> : m \in MaxDistances}]
  /\ ret = <<>>

\* combinedSimilarity(mhdSimilarity, orderSimilarity[, weights])
CombinedSimilarityCall ==
  /\ pc = "call"
  /\ args.fn = "combinedSimilarity"
  /\ ret' = combinedSimilarity(args.mhdSimilarity, args.orderSimilarity,
                               IF args.weights = <<>> THEN DEFAULT_WEIGHTS
                               ELSE args.weights[1])
  /\ pc' = "done"
  /\ UNCHANGED <<storedRoutes, args, hookVars>>

\* distanceToSimilarity(distance[, maxDistance])
DistanceToSimilarityCall ==
  /\ pc = "call"
  /\ args.fn = "distanceToSimilarity"
  /\ ret' = distanceToSimilarity(args.distance,
                                 IF args.maxDistance = <<>> THEN DEFAULT_MAX_DISTANCE
                                 ELSE args.maxDistance[1])
  /\ pc' = "done"
  /\ UNCHANGED <<storedRoutes, args, hookVars>>

NextScore == CombinedSimilarityCall \/ DistanceToSimilarityCall

SpecScore == InitScore /\ [][NextScore]_vars

CombinedDone == pc = "done" /\ args.fn = "combinedSimilarity"

\* the weights a combinedSimilarity call works with
WeightsUsed == IF args.weights = <<>> THEN DEFAULT_WEIGHTS ELSE args.weights[1]

\* w1 * mhdSimilarity + w2 * orderSimilarity
WeightedSum ==
  RatAdd(RatMul(WeightsUsed.mhd, Num(args.mhdSimilarity)),
         RatMul(WeightsUsed.order, Num(args.orderSimilarity)))

\* r is x rounded to the nearest integer, halves upwards
IsRounded(r, x) ==
  /\ r \in Int
  /\ RatLE(RatSub(Num(r), Rat(1, 2)), x)
  /\ RatLT(x, RatAdd(Num(r), Rat(1, 2)))

\* C12: combinedSimilarity(m, o, {mhd: w1, order: w2}) is w1 * m + w2 * o
\* rounded to the nearest integer; with the default weights (100, 100)
\* gives 100, (0, 0) gives 0, (100, 0) gives 60 and (0, 100) gives 40; and
\* (100, 100) gives 100 * (w1 + w2) rounded for every weights pair.
C12_CombinedIsRoundedSum ==
  CombinedDone =>
    /\ IsRounded(ret, WeightedSum)
    /\ (args.mhdSimilarity = 100 /\ args.orderSimilarity = 100)
         => IsRounded(ret, RatMul(Num(100), RatAdd(WeightsUsed.mhd, WeightsUsed.order)))
    /\ args.weights = <<>> =>
         /\ (args.mhdSimilarity = 100 /\ args.orderSimilarity = 100) => ret = 100
         /\ (args.mhdSimilarity = 0 /\ args.orderSimilarity = 0) => ret = 0
         /\ (args.mhdSimilarity = 100 /\ args.orderSimilarity = 0) => ret = 60
         /\ (args.mhdSimilarity = 0 /\ args.orderSimilarity = 100) => ret = 40

\* a call with weights left out whose weighted sum is not an integer
C12_Witness ==
  /\ CombinedDone
  /\ args.weights = <<>>
  /\ args.mhdSimilarity = 33 /\ args.orderSimilarity = 67
  /\ WeightedSum.d # 1
  /\ ret = 47

ToSimilarityDone == pc = "done" /\ args.fn = "distanceToSimilarity"

\* the threshold a distanceToSimilarity call works with
MaxDistanceUsed ==
  IF args.maxDistance = <<>> THEN DEFAULT_MAX_DISTANCE ELSE args.maxDistance[1]

\* 100 * max(0, 1 - d / m) for a finite d
LinearDecay(d, m) ==
  LET x == RatMul(Num(100), RatSub(Num(1), RatDiv(d, m)))
  IN  IF RatLE(x, Num(0)) THEN Num(0) ELSE x

\* C14: for m > 0 and d >= 0, Infinity included, distanceToSimilarity(d, m)
\* is 100 * max(0, 1 - d / m) rounded to the nearest integer and lies in
\* 0..100; it is 100 at d = 0, 50 at d = m / 2 and 0 for every d >= m.
C14_LinearDecay ==
  ToSimilarityDone =>
    /\ ret \in 0..100
    /\ args.distance.d # 0 => IsRounded(ret, LinearDecay(args.distance, MaxDistanceUsed))
    /\ args.distance.d = 0 => ret = 0
    /\ args.distance = Num(0) => ret = 100
    /\ args.distance = RatDiv(MaxDistanceUsed, Num(2)) => ret = 50
    /\ RatLE(MaxDistanceUsed, args.distance) => ret = 0

\* a distance below the threshold whose decay is not an integer
C14_Witness ==
  /\ ToSimilarityDone
  /\ args.maxDistance = <<>>
  /\ args.distance = Rat(1, 20)
  /\ LinearDecay(args.distance, MaxDistanceUsed).d # 1
  /\ ret = 92

(***************************************************************************)
(* relativeOrderSimilarity applied to two point sets.                      *)
(***************************************************************************)
\* longest point set handed to relativeOrderSimilarity
OrderMaxLen == 3

OrderPoints == {Pt(0, 0), Pt(2, 0), Pt(1, 1)}

\* the second set is any point set, or the first one scaled and shifted
InitOrder ==
  /\ NoHook
  /\ storedRoutes = <<>>
  /\ pc = "call"
  /\ args \in {[fn |-> "relativeOrderSimilarity", pointsA |-> A, pointsB |-> B] :
                 A \in SeqsUpTo(OrderPoints, OrderMaxLen),
                 B \in SeqsUpTo(OrderPoints, OrderMaxLen)}
             \cup
             {[fn |-> "relativeOrderSimilarity", pointsA |-> A,
               pointsB |-> Transform(A, s, t)] :
                 A \in SeqsUpTo(OrderPoints, OrderMaxLen),
                 s \in NormScales, t \in NormShifts}
  /\ ret = <<>>

\* relativeOrderSimilarity(pointsA, pointsB)
OrderCall ==
  /\ pc = "call"
  /\ args.fn = "relativeOrderSimilarity"
  /\ ret' = relativeOrderSimilarity(args.pointsA, args.pointsB)
  /\ pc' = "done"
  /\ UNCHANGED <<storedRoutes, args, hookVars>>

NextOrder == OrderCall

SpecOrder == InitOrder /\ [][NextOrder]_vars

OrderDone == pc = "done" /\ args.fn = "relativeOrderSimilarity"

\* C15: relativeOrderSimilarity is 0 whenever either point set is empty,
\* and 100 whenever both have exactly one point, whatever its coordinates.
C15_OrderDegenerate ==
  OrderDone =>
    /\ (args.pointsA = <<>> \/ args.pointsB = <<>>) => ret = 0
    /\ (Len(args.pointsA) = 1 /\ Len(args.pointsB) = 1) => ret = 100

\* two single points at different places
C15_Witness ==
  /\ OrderDone
  /\ Len(args.pointsA) = 1 /\ Len(args.pointsB) = 1
  /\ args.pointsA[1].x # args.pointsB[1].x
  /\ args.pointsA[1].y # args.pointsB[1].y
  /\ ret = 100

\* pointsB is pointsA scaled by a positive factor and shifted
IsScaledShifted ==
  \E s \in NormScales, t \in NormShifts :
    args.pointsB = Transform(args.pointsA, s, t)

\* C16: for every non-empty point set A, positive scale s and shift t,
\* relativeOrderSimilarity(A, s * A + t) = 100; so
\* relativeOrderSimilarity(A, A) = 100.
C16_OrderScaleShiftInvariant ==
  (OrderDone /\ args.pointsA # <<>> /\ IsScaledShifted) => ret = 100

\* three different points, not in y order, scaled and shifted
C16_Witness ==
  /\ OrderDone
  /\ Len(args.pointsA) = 3
  /\ Cardinality({args.pointsA[i] : i \in 1..3}) = 3
  /\ SortByY(args.pointsA) # args.pointsA
  /\ args.pointsB # args.pointsA
  /\ args.pointsB = Transform(args.pointsA, Rat(3, 1), Pt(-2, 3))
  /\ ret = 100

(***************************************************************************)
(* Every core function applied to the degenerate inputs: empty sets,       *)
(* single points, coincident points, sequences of equal values, sets of    *)
(* unequal length, routes without images.                                  *)
(***************************************************************************)
Coincident == <<Pt(1, 1), Pt(1, 1)>>

\* all x equal, so the x sequence of relativeOrderSimilarity is constant
Vertical == <<Pt(1, 0), Pt(1, 2), Pt(1, 1)>>

EdgePointSets == {<<>>, <<Pt(1, 1)>>, Coincident, Vertical, Diagonal, Triangle}

EdgeSequences == {<<>>, <<Num(0)>>, <<Num(1), Num(1)>>, <<Num(0), Num(1), Num(2)>>}

EdgeRoutes == {<<>>, <<<<>>>>, <<<<>>, <<Triangle>>>>, <<<<Coincident, <<>>>>, <<>>>>,
               <<<<Vertical>>, <<<<Pt(1, 1)>>>>>>}

InitCore ==
  /\ NoHook
  /\ pc = "call"
  /\ ret = <<>>
  /\ \/ /\ storedRoutes = <<>>
        /\ args \in [fn : {"normalizePoints"}, points : EdgePointSets,
                     s : {Num(1)}, t : {Pt(0, 0)}]
                   \cup
                   [fn : {"modifiedHausdorffDistance"},
                    A : EdgePointSets, B : EdgePointSets]
                   \cup
                   [fn : {"dtwDistance"}, a : EdgeSequences, b : EdgeSequences]
                   \cup
                   [fn : {"relativeOrderSimilarity"},
                    pointsA : EdgePointSets, pointsB : EdgePointSets]
                   \cup
                   [fn : {"distanceToSimilarity"},
                    distance : {Num(0), Rat(3, 10), Rat(6, 10), Infinity},
                    maxDistance : {<<>>, <<Num(1)>>}]
                   \cup
                   [fn : {"combinedSimilarity"},
                    mhdSimilarity : {0, 50, 100}, orderSimilarity : {0, 50, 100},
                    weights : {<<>>, <<[mhd |-> Num(1), order |-> Num(0)]>>}]
     \/ /\ storedRoutes \in {MkRoutes(shapes) : shapes \in EdgeRoutes}
        /\ args = [fn |-> "searchRoutes"]

NextCore ==
  \/ NormalizeCall
  \/ MhdCall
  \/ DistanceToSimilarityCall
  \/ DtwCall
  \/ OrderCall
  \/ CombinedSimilarityCall
  \/ SearchCall

SpecCore == InitCore /\ [][NextCore]_vars

\* C17: modifiedHausdorffDistance(A, B) is +Infinity whenever A or B is
\* empty, and dtwDistance(a, b) is +Infinity whenever a or b is empty, both
\* empty included.
C17_EmptyIsInfinity ==
  /\ (MhdDone /\ (args.A = <<>> \/ args.B = <<>>))
       => (ret.ab = Infinity /\ ret.ba = Infinity)
  /\ (DtwDone /\ (args.a = <<>> \/ args.b = <<>>))
       => (ret.ab = Infinity /\ ret.ba = Infinity)

\* a set of three points against the empty set
C17_Witness ==
  /\ MhdDone
  /\ Len(args.A) = 3 /\ args.B = <<>>
  /\ ret.ab = Infinity
  /\ ret.ba = Infinity

\* a number: finite, or +Infinity; not 0 / 0
IsNumber(x) == x.d > 0 \/ x = Infinity

\* a point set of k points with finite coordinates
IsPointSet(P, k) ==
  /\ DOMAIN P = 1..k
  /\ \A i \in 1..k : P[i].x.d > 0 /\ P[i].y.d > 0

\* C18: every core function returns a value for every input made of arrays
\* of finite numbers: a point set as long as its input from
\* normalizePoints, a number from the two distances, an integer from the
\* three similarities, and from searchRoutes a list of results with
\* integer similarities.
C18_ReturnsValue ==
  /\ pc \in {"call", "done"}
  /\ pc = "done" =>
       /\ args.fn = "normalizePoints" =>
            /\ IsPointSet(ret.out, Len(args.points))
            /\ IsPointSet(ret.outT, Len(args.points))
       /\ args.fn \in {"modifiedHausdorffDistance", "dtwDistance"} =>
            IsNumber(ret.ab) /\ IsNumber(ret.ba)
       /\ args.fn \in {"distanceToSimilarity", "relativeOrderSimilarity",
                        "combinedSimilarity"} =>
            ret \in Int
       /\ args.fn = "searchRoutes" =>
            \A i \in DOMAIN ret :
              /\ ret[i].similarity \in Int
              /\ \E r \in DOMAIN storedRoutes : ret[i].route = storedRoutes[r]

\* coincident points normalized to the origin
C18_Witness ==
  /\ NormDone
  /\ args.points = Coincident
  /\ ret.out = <<[x |-> SurdOfRat(Num(0)), y |-> SurdOfRat(Num(0))]>>
                  \o <<[x |-> SurdOfRat(Num(0)), y |-> SurdOfRat(Num(0))]>>

\* C19: a searchRoutes call leaves its inputs as they were: the queryPoints
\* array, the routes array and every route's images, points and
\* normalizedPoints hold the same elements in the same order after the call.
C19_InputsUnchanged ==
  [][(pc = "call" /\ args.fn = "searchRoutes" /\ pc' = "done")
       => /\ storedRoutes' = storedRoutes
          /\ args'.queryPointsAfter = args'.queryPoints]_vars

\* a query and a stored image that are not in y order have been through the
\* Y-sort, and the results come in another order than the routes
C19_Witness ==
  /\ SearchDone
  /\ SortByY(args.queryPoints) # args.queryPoints
  /\ args.queryPointsAfter = args.queryPoints
  /\ Len(ret) = 2
  /\ RouteIndex(ret[1].route) = 2
  /\ \E k \in DOMAIN storedRoutes[1].images :
       SortByY(storedRoutes[1].images[k].points) # storedRoutes[1].images[k].points

\* the point (0, 0) as normalizePoints returns it
Origin == [x |-> SurdOfRat(Num(0)), y |-> SurdOfRat(Num(0))]

\* C20: normalizePoints([]) is the empty set and normalizePoints([p]) is
\* exactly the one point (0, 0), for every point p.
C20_NormalizeEmptyAndSingle ==
  NormDone =>
    /\ args.points = <<>> => (ret.out = <<>> /\ ret.outT = <<>>)
    /\ Len(args.points) = 1 => (ret.out = <<Origin>> /\ ret.outT = <<Origin>>)

\* a single point away from the origin
C20_Witness ==
  /\ NormDone
  /\ Len(args.points) = 1
  /\ args.points[1] = Pt(1, 1)
  /\ args.t = Pt(-2, 3)
  /\ ret.out = <<Origin>>

\* the quotient of the radicands of two surds (ref # 0), in lowest terms
RadicandRatio(c, ref) == Rat(c.n * ref.d, c.d * ref.n)

\* the rational c / ref of two surds that are rational multiples of each
\* other
SurdRatio(c, ref) ==
  Rat(c.sg * ref.sg * ISqrt(RadicandRatio(c, ref).n), ISqrt(RadicandRatio(c, ref).d))

\* c / ref is rational: the quotient of the radicands is a square
RatioIsRational(c, ref) ==
  LET q == RadicandRatio(c, ref)
  IN  ISqrt(q.n) * ISqrt(q.n) = q.n /\ ISqrt(q.d) * ISqrt(q.d) = q.d

\* the surds of a sequence add up to 0
SurdsSumToZero(cs) ==
  \/ \A i \in DOMAIN cs : cs[i].sg = 0
  \/ \E h \in DOMAIN cs :
       /\ cs[h].sg # 0
       /\ \A i \in DOMAIN cs : RatioIsRational(cs[i], cs[h])
       /\ SumSeq([i \in DOMAIN cs |-> SurdRatio(cs[i], cs[h])]) = Num(0)

\* the mean of x^2 + y^2 over a normalized point set
MeanSquareRadius(P) ==
  mean([i \in DOMAIN P |-> RatAdd(Rat(P[i].x.n, P[i].x.d), Rat(P[i].y.n, P[i].y.d))])

AllCoincide(points) == \A i \in DOMAIN points : points[i] = points[1]

\* C21: for two or more points normalizePoints returns as many points as it
\* was given, with the centroid at the origin; the mean of x^2 + y^2 is 1
\* unless the points all coincide, and then every output point is (0, 0).
\* This is the statement for normalizePoints computed with exact numbers
\* (SpecNorm); with rounded arithmetic see C21_CoincidentAtOrigin.
C21_CentredUnitRadius ==
  (NormDone /\ Len(args.points) >= 2) =>
    /\ Len(ret.out) = Len(args.points)
    /\ SurdsSumToZero([i \in DOMAIN ret.out |-> ret.out[i].x])
    /\ SurdsSumToZero([i \in DOMAIN ret.out |-> ret.out[i].y])
    /\ ~AllCoincide(args.points) => MeanSquareRadius(ret.out) = Num(1)
    /\ AllCoincide(args.points) => \A i \in DOMAIN ret.out : ret.out[i] = Origin

\* three points, not on one line, scaled to unit radius
C21_Witness ==
  /\ NormDone
  /\ args.points = <<Pt(0, 0), Pt(1, 0), Pt(1, 1)>>
  /\ ret.out[1].x.sg = -1 /\ ret.out[3].y.sg = 1
  /\ MeanSquareRadius(ret.out) = Num(1)
  /\ ret.out[2] # Origin

(***************************************************************************)
(* normalizePoints in rounded arithmetic.  A number is a binary            *)
(* floating-point value with FloatBits significant bits (53 in the         *)
(* program), every sum, difference, product and quotient is rounded to     *)
(* the nearest such value, ties to even.  Exponent range is not bounded.   *)
(* The final division by the RMS radius stays symbolic, as above.          *)
(***************************************************************************)
\* significant bits of a number
FloatBits == 4

RECURSIVE Pow2(_)
Pow2(k) == IF k = 0 THEN 1 ELSE 2 * Pow2(k - 1)

\* the integer nearest to the rational q >= 0, ties to the even one
RoundHalfEven(q) ==
  LET f == q.n \div q.d
      rest == 2 * (q.n % q.d)
  IN  IF rest > q.d \/ (rest = q.d /\ f % 2 = 1) THEN f + 1 ELSE f

\* x > 0 rounded to FloatBits significant bits, unit a power of 2
RECURSIVE FlPos(_, _)
FlPos(x, unit) ==
  IF RatLE(RatMul(Num(Pow2(FloatBits)), unit), x) THEN FlPos(x, RatMul(unit, Num(2)))
  ELSE IF RatLT(x, RatMul(Num(Pow2(FloatBits - 1)), unit)) THEN FlPos(x, RatDiv(unit, Num(2)))
  ELSE RatMul(Num(RoundHalfEven(RatDiv(x, unit))), unit)

\* the floating-point value nearest to x
Fl(x) ==
  IF x.n = 0 THEN x
  ELSE IF x.n < 0 THEN RatSub(Num(0), FlPos(RatSub(Num(0), x), Num(1)))
  ELSE FlPos(x, Num(1))

\* values.reduce((sum, v) => sum + v, 0) over the first k values
RECURSIVE sumRounded(_, _)
sumRounded(values, k) ==
  IF k = 0 THEN Num(0)
  ELSE Fl(RatAdd(sumRounded(values, k - 1), values[k]))

\* mean(values) in rounded arithmetic
meanRounded(values) ==
  IF Len(values) = 0 THEN Num(0)
  ELSE Fl(RatDiv(sumRounded(values, Len(values)), Num(Len(values))))

\* normalizePoints(points) in rounded arithmetic
normalizePointsRounded(points) ==
  IF Len(points) = 0 THEN <<>>
  ELSE IF Len(points) = 1 THEN <<[x |-> SurdOfRat(Num(0)), y |-> SurdOfRat(Num(0))]>>
  ELSE
    LET centroid == [x |-> meanRounded([i \in DOMAIN points |-> points[i].x]),
                     y |-> meanRounded([i \in DOMAIN points |-> points[i].y])]
        centered == [i \in DOMAIN points |->
                       [x |-> Fl(RatSub(points[i].x, centroid.x)),
                        y |-> Fl(RatSub(points[i].y, centroid.y))]]
        squaredDistances == [i \in DOMAIN points |->
                               Fl(RatAdd(Fl(RatMul(centered[i].x, centered[i].x)),
                                         Fl(RatMul(centered[i].y, centered[i].y))))]
        \* rms = Math.sqrt(rms2), which is 0 exactly when rms2 is
        rms2 == meanRounded(squaredDistances)
    IN  IF rms2.n = 0
        THEN [i \in DOMAIN points |->
                [x |-> SurdOfRat(centered[i].x), y |-> SurdOfRat(centered[i].y)]]
        ELSE [i \in DOMAIN points |->
                [x |-> DivBySqrt(centered[i].x, rms2),
                 y |-> DivBySqrt(centered[i].y, rms2)]]

\* coordinates that are floating-point values, and shifts that keep them so
RoundedCoords == {7, 8, 11}

RoundedPoints == {Pt(x, y) : x, y \in RoundedCoords}

RoundedShifts == {Pt(0, 0), Pt(-1, -1)}

InitNormRounded ==
  /\ NoHook
  /\ storedRoutes = <<>>
  /\ pc = "call"
  /\ args \in [fn : {"normalizePoints"},
               points : SeqsUpTo(RoundedPoints, NormMaxLen),
               s : {Num(1)},
               t : RoundedShifts]
  /\ ret = <<>>

\* normalizePoints(points) and normalizePoints(s * points + t)
NormalizeRoundedCall ==
  /\ pc = "call"
  /\ args.fn = "normalizePoints"
  /\ ret' = [out |-> normalizePointsRounded(args.points),
             outT |-> normalizePointsRounded(Transform(args.points, args.s, args.t))]
  /\ pc' = "done"
  /\ UNCHANGED <<storedRoutes, args, hookVars>>

NextNormRounded == NormalizeRoundedCall

SpecNormRounded == InitNormRounded /\ [][NextNormRounded]_vars

\* C21, the case of coincident points: for two or more points that all
\* coincide every point normalizePoints returns is (0, 0).
C21_CoincidentAtOrigin ==
  (NormDone /\ Len(args.points) >= 2 /\ AllCoincide(args.points))
  => \A i \in DOMAIN ret.out : ret.out[i] = Origin

\* C7, the case of coincident points: for points that all coincide
\* normalizePoints(s * P + t) equals normalizePoints(P) point by point.
C7_CoincidentInvariant ==
  (NormDone /\ AllCoincide(args.points)) => ret.outT = ret.out

\* C22: the Modified Hausdorff Distance of a non-empty point set to itself
\* is 0.
C22_SelfDistanceZero ==
  (MhdDone /\ Len(args.A) >= 1 /\ args.B = args.A) => ret.ab = Num(0)

\* a set of two different points has been compared with itself
C22_Witness ==
  /\ MhdDone
  /\ args.B = args.A
  /\ Len(args.A) = 2
  /\ args.A[1] # args.A[2]
  /\ ret.ab = Num(0)

\* C23: the DTW distance of a non-empty sequence to itself is 0.
C23_SelfDtwZero ==
  (DtwDone /\ Len(args.a) >= 1 /\ args.b = args.a) => ret.ab = Num(0)

\* a sequence of three values, not all equal, has been compared with itself
C23_Witness ==
  /\ DtwDone
  /\ args.b = args.a
  /\ Len(args.a) = 3
  /\ args.a[1] # args.a[2]
  /\ ret.ab = Num(0)

\* the steps of a warping path: i advances, j advances, or both do
WarpSteps == {<<1, 0>>, <<0, 1>>, <<1, 1>>}

\* the cell reached from (1, 1) by the first t steps of steps
RECURSIVE CellAfter(_, _)
CellAfter(steps, t) ==
  IF t = 0 THEN <<1, 1>>
  ELSE LET c == CellAfter(steps, t - 1)
       IN  <<c[1] + steps[t][1], c[2] + steps[t][2]>>

\* the monotone warping paths from (1, 1) to (n, m), as sequences of steps
WarpingPaths(n, m) ==
  {steps \in UNION {[1..k -> WarpSteps] : k \in 0..(n + m - 2)} :
     CellAfter(steps, Len(steps)) = <<n, m>>}

\* the sum of |a[i] - b[j]| over the cells (i, j) of the path
PathCost(a, b, steps) ==
  SumSeq([t \in 1..(Len(steps) + 1) |->
            LET c == CellAfter(steps, t - 1) IN Gap(a[c[1]], b[c[2]])])

\* C24: dtwDistance(a, b) * max(n, m) is the least cost of a monotone
\* warping path from (1, 1) to (n, m), the cost of a path being the sum of
\* |a[i] - b[j]| over its cells; also when n # m.
C24_LeastWarpingCost ==
  (DtwDone /\ pc = "done" /\ Len(args.a) >= 1 /\ Len(args.b) >= 1) =>
    LET n == Len(args.a)
        m == Len(args.b)
        total == RatMul(ret.ab, Num(IF n > m THEN n ELSE m))
        paths == WarpingPaths(n, m)
    IN  /\ \E steps \in paths : PathCost(args.a, args.b, steps) = total
        /\ \A steps \in paths : RatLE(total, PathCost(args.a, args.b, steps))

\* sequences of different lengths whose best path advances i alone at the end
C24_Witness ==
  /\ DtwDone
  /\ args.a = <<Num(0), Num(1), Num(1)>>
  /\ args.b = <<Num(0), Num(2)>>
  /\ ret.ab = Rat(2, 3)
  /\ PathCost(args.a, args.b, <<(<<1, 1>>), (<<1, 0>>)>>) = Num(2)

(***************************************************************************)
(* The useRoutes hook (src/hooks/useRoutes.ts) over the storage functions   *)
(* (src/lib/storage.ts).  Every function of the hook is async: a call runs  *)
(* up to its first await when it is made, and each later step of the call   *)
(* is the completion of the awaited storage operation together with the     *)
(* code up to the next await.  Steps of different calls interleave.         *)
(* storedRoutes is the routes state of the hook; a call of addRoute,        *)
(* addImageToRoute or deleteRoute works on the routes value of the render   *)
(* in which it was made (useCallback(..., [routes])).                       *)
(***************************************************************************)
\* calls of the hook's functions made in one behaviour
MaxCalls == 3

\* the point lists marked on the images
HookPointSets == {Diagonal, <<Pt(5, 5)>>}

\* crypto.randomUUID(): the k-th identifier drawn by call c
Uuid(c, k) == 2 * (c - 1) + k

\* `${imageId}.jpg`
Filename(imageId) == <<imageId, ".jpg">>

\* mutant of newImage: the points stored as they are
newImageRaw(imageId, points) ==
  [id |-> imageId,
   filename |-> Filename(imageId),
   points |-> points,
   normalizedPoints |-> [i \in DOMAIN points |->
                           [x |-> SurdOfRat(points[i].x), y |-> SurdOfRat(points[i].y)]]]

\* { id: imageId, filename, points, normalizedPoints: normalizePoints(points) }
newImage(imageId, points) ==
  [id |-> imageId,
   filename |-> Filename(imageId),
   points |-> points,
   normalizedPoints |-> normalizePoints(points)]

\* const newRoute: Route = { id, name, images: [...], createdAt }
newRoute(routeId, name, imageId, points, now) ==
  [id |-> routeId,
   name |-> name,
   images |-> <<newImage(imageId, points)>>,
   createdAt |-> now]

\* routes.find(r => r.id === routeId): <<route>>, or <<>> for undefined
findRoute(routes, routeId) ==
  LET found == {r \in DOMAIN routes : routes[r].id = routeId}
  IN  IF found = {} THEN <<>>
      ELSE <<routes[CHOOSE r \in found : \A q \in found : r <= q]>>

\* routes.map(route => route.id === routeId ? {...route, images: [...route.images, image]} : route)
withImage(routes, routeId, image) ==
  [r \in DOMAIN routes |->
     IF routes[r].id = routeId
     THEN [routes[r] EXCEPT !.images = Append(@, image)]
     ELSE routes[r]]

\* routes.filter(r => r.id !== routeId)
withoutRoute(routes, routeId) ==
  SelectSeq(routes, LAMBDA r : r.id # routeId)

\* blobUrlCache.get(filename): <<url>>, or <<>> for undefined
cacheGet(cache, filename) ==
  IF filename \in DOMAIN cache THEN <<cache[filename]>> ELSE <<>>

\* blobUrlCache.set(filename, url)
cacheSet(cache, filename, url) ==
  [f \in DOMAIN cache \cup {filename} |-> IF f = filename THEN url ELSE cache[f]]

\* blobUrlCache.delete(filename)
cacheDelete(cache, filename) ==
  [f \in DOMAIN cache \ {filename} |-> cache[f]]

\* URL.revokeObjectURL(url)
revokeObjectURL(urls, url) ==
  [urls EXCEPT ![url].revoked = TRUE]

\* a route list saved by an earlier session: one route with one image
FormerRoutes == <<newRoute(-1, "former", 0, Diagonal, 0)>>

\* the fields of a call that its function does not use
NoCall ==
  [fn |-> "", pc |-> "", routes |-> <<>>, routeId |-> 0, imageId |-> 0,
   filename |-> <<>>, points |-> <<>>, route |-> <<>>, k |-> 0,
   updatedRoutes |-> <<>>, url |-> <<>>]

\* the hook is mounted and refresh() has loaded what an earlier session saved
InitHook ==
  /\ pc = "hook"
  /\ args = [fn |-> "useRoutes"]
  /\ ret = <<>>
  /\ savedRoutes \in {<<>>, FormerRoutes}
  /\ storedRoutes = savedRoutes
  /\ imageFiles = {savedRoutes[r].images[k].filename :
                     r \in DOMAIN savedRoutes, k \in {1}}
  /\ blobUrlCache = <<>>
  /\ objectUrls = <<>>
  /\ calls = <<>>

\* the route identifiers an argument can name (those in the routes state or
\* returned by addRoute) and the filenames of the images on display
RouteIdsKnown ==
  {storedRoutes[r].id : r \in DOMAIN storedRoutes}
    \cup {calls[c].routeId :
            c \in {d \in DOMAIN calls : calls[d].fn = "addRoute" /\ calls[d].pc = "done"}}

FilenamesKnown ==
  UNION {{storedRoutes[r].images[k].filename : k \in DOMAIN storedRoutes[r].images} :
           r \in DOMAIN storedRoutes}

\* addRoute(name, imageBlob, points), up to await saveImage(imageBlob, filename)
AddRouteCall ==
  /\ pc = "hook"
  /\ Len(calls) < MaxCalls
  /\ \E points \in HookPointSets :
       LET c == Len(calls) + 1
       IN  calls' = Append(calls,
                      [NoCall EXCEPT !.fn = "addRoute", !.pc = "saveImage",
                                     !.routes = storedRoutes,
                                     !.routeId = Uuid(c, 1), !.imageId = Uuid(c, 2),
                                     !.filename = Filename(Uuid(c, 2)),
                                     !.points = points])
  /\ UNCHANGED <<storedRoutes, pc, args, ret, savedRoutes, imageFiles,
                 blobUrlCache, objectUrls>>

\* addRoute: the image is saved; updatedRoutes = [...routes, newRoute], up to
\* await saveRoutes(updatedRoutes)
AddRouteSaveImage ==
  /\ pc = "hook"
  /\ \E c \in DOMAIN calls :
       /\ calls[c].fn = "addRoute"
       /\ calls[c].pc = "saveImage"
       /\ imageFiles' = imageFiles \cup {calls[c].filename}
       /\ calls' = [calls EXCEPT
                      ![c].pc = "saveRoutes",
                      ![c].updatedRoutes =
                        Append(calls[c].routes,
                               newRoute(calls[c].routeId, "route", calls[c].imageId,
                                        calls[c].points, c))]
  /\ UNCHANGED <<storedRoutes, pc, args, ret, savedRoutes, blobUrlCache, objectUrls>>

\* addRoute: the list is saved; setRoutes(updatedRoutes); return newRoute
AddRouteSaveRoutes ==
  /\ pc = "hook"
  /\ \E c \in DOMAIN calls :
       /\ calls[c].fn = "addRoute"
       /\ calls[c].pc = "saveRoutes"
       /\ savedRoutes' = calls[c].updatedRoutes
       /\ storedRoutes' = calls[c].updatedRoutes
       /\ calls' = [calls EXCEPT ![c].pc = "done"]
  /\ UNCHANGED <<pc, args, ret, imageFiles, blobUrlCache, objectUrls>>

\* addImageToRoute(routeId, imageBlob, points), up to await saveImage(...)
AddImageToRouteCall ==
  /\ pc = "hook"
  /\ Len(calls) < MaxCalls
  /\ \E routeId \in RouteIdsKnown, points \in HookPointSets :
       LET c == Len(calls) + 1
       IN  calls' = Append(calls,
                      [NoCall EXCEPT !.fn = "addImageToRoute", !.pc = "saveImage",
                                     !.routes = storedRoutes,
                                     !.routeId = routeId, !.imageId = Uuid(c, 1),
                                     !.filename = Filename(Uuid(c, 1)),
                                     !.points = points])
  /\ UNCHANGED <<storedRoutes, pc, args, ret, savedRoutes, imageFiles,
                 blobUrlCache, objectUrls>>

\* addImageToRoute: the image is saved; updatedRoutes = routes.map(...), up to
\* await saveRoutes(updatedRoutes)
AddImageToRouteSaveImage ==
  /\ pc = "hook"
  /\ \E c \in DOMAIN calls :
       /\ calls[c].fn = "addImageToRoute"
       /\ calls[c].pc = "saveImage"
       /\ imageFiles' = imageFiles \cup {calls[c].filename}
       /\ calls' = [calls EXCEPT
                      ![c].pc = "saveRoutes",
                      ![c].updatedRoutes =
                        withImage(calls[c].routes, calls[c].routeId,
                                  newImage(calls[c].imageId, calls[c].points))]
  /\ UNCHANGED <<storedRoutes, pc, args, ret, savedRoutes, blobUrlCache, objectUrls>>

\* addImageToRoute: the list is saved; setRoutes(updatedRoutes)
AddImageToRouteSaveRoutes ==
  /\ pc = "hook"
  /\ \E c \in DOMAIN calls :
       /\ calls[c].fn = "addImageToRoute"
       /\ calls[c].pc = "saveRoutes"
       /\ savedRoutes' = calls[c].updatedRoutes
       /\ storedRoutes' = calls[c].updatedRoutes
       /\ calls' = [calls EXCEPT ![c].pc = "done"]
  /\ UNCHANGED <<pc, args, ret, imageFiles, blobUrlCache, objectUrls>>

\* the cache and the URLs after the loop body of deleteRoute has run for
\* filename, up to await deleteImage(image.filename)
evicted(cache, urls, filename) ==
  LET cachedUrl == cacheGet(cache, filename)
  IN  IF cachedUrl # <<>>
      THEN [cache |-> cacheDelete(cache, filename),
            urls |-> revokeObjectURL(urls, cachedUrl[1])]
      ELSE [cache |-> cache, urls |-> urls]

\* deleteRoute(routeId): return when the route is not found; otherwise up to
\* the first await deleteImage(image.filename), or to await saveRoutes(...)
\* when the route has no images
DeleteRouteCall ==
  /\ pc = "hook"
  /\ Len(calls) < MaxCalls
  /\ \E routeId \in RouteIdsKnown :
       LET route == findRoute(storedRoutes, routeId)
           call == [NoCall EXCEPT !.fn = "deleteRoute", !.routes = storedRoutes,
                                  !.routeId = routeId, !.route = route]
       IN  IF route = <<>>
           THEN /\ calls' = Append(calls, [call EXCEPT !.pc = "done"])
                /\ UNCHANGED <<blobUrlCache, objectUrls>>
           ELSE IF Len(route[1].images) = 0
           THEN /\ calls' = Append(calls,
                               [call EXCEPT !.pc = "saveRoutes",
                                            !.updatedRoutes =
                                              withoutRoute(storedRoutes, routeId)])
                /\ UNCHANGED <<blobUrlCache, objectUrls>>
           ELSE LET after == evicted(blobUrlCache, objectUrls,
                                     route[1].images[1].filename)
                IN  /\ calls' = Append(calls,
                                  [call EXCEPT !.pc = "deleteImage", !.k = 1])
                    /\ blobUrlCache' = after.cache
                    /\ objectUrls' = after.urls
  /\ UNCHANGED <<storedRoutes, pc, args, ret, savedRoutes, imageFiles>>

\* deleteRoute: image k is deleted; the loop body runs for image k + 1, or,
\* after the last image, updatedRoutes = routes.filter(...), up to
\* await saveRoutes(updatedRoutes)
DeleteRouteDeleteImage ==
  /\ pc = "hook"
  /\ \E c \in DOMAIN calls :
       /\ calls[c].fn = "deleteRoute"
       /\ calls[c].pc = "deleteImage"
       /\ LET images == calls[c].route[1].images
              k == calls[c].k
          IN  /\ imageFiles' = imageFiles \ {images[k].filename}
              /\ IF k < Len(images)
                 THEN LET after == evicted(blobUrlCache, objectUrls,
                                           images[k + 1].filename)
                      IN  /\ calls' = [calls EXCEPT ![c].k = k + 1]
                          /\ blobUrlCache' = after.cache
                          /\ objectUrls' = after.urls
                 ELSE /\ calls' = [calls EXCEPT
                                     ![c].pc = "saveRoutes",
                                     ![c].updatedRoutes =
                                       withoutRoute(calls[c].routes, calls[c].routeId)]
                      /\ UNCHANGED <<blobUrlCache, objectUrls>>
  /\ UNCHANGED <<storedRoutes, pc, args, ret, savedRoutes>>

\* deleteRoute: the list is saved; setRoutes(updatedRoutes)
DeleteRouteSaveRoutes ==
  /\ pc = "hook"
  /\ \E c \in DOMAIN calls :
       /\ calls[c].fn = "deleteRoute"
       /\ calls[c].pc = "saveRoutes"
       /\ savedRoutes' = calls[c].updatedRoutes
       /\ storedRoutes' = calls[c].updatedRoutes
       /\ calls' = [calls EXCEPT ![c].pc = "done"]
  /\ UNCHANGED <<pc, args, ret, imageFiles, blobUrlCache, objectUrls>>

\* getImageUrl(filename): return the cached URL, or go up to
\* await loadImage(filename)
GetImageUrlCall ==
  /\ pc = "hook"
  /\ Len(calls) < MaxCalls
  /\ \E filename \in FilenamesKnown :
       LET cached == cacheGet(blobUrlCache, filename)
           call == [NoCall EXCEPT !.fn = "getImageUrl", !.filename = filename]
       IN  calls' = Append(calls,
                      IF cached # <<>>
                      THEN [call EXCEPT !.pc = "done", !.url = cached]
                      ELSE [call EXCEPT !.pc = "loadImage"])
  /\ UNCHANGED <<storedRoutes, pc, args, ret, savedRoutes, imageFiles,
                 blobUrlCache, objectUrls>>

\* getImageUrl: the image is loaded (loadImage throws when the file is not
\* there); url = URL.createObjectURL(blob); blobUrlCache.set(filename, url)
GetImageUrlLoadImage ==
  /\ pc = "hook"
  /\ \E c \in DOMAIN calls :
       /\ calls[c].fn = "getImageUrl"
       /\ calls[c].pc = "loadImage"
       /\ IF calls[c].filename \in imageFiles
          THEN LET url == Len(objectUrls) + 1
               IN  /\ objectUrls' = Append(objectUrls,
                                      [filename |-> calls[c].filename,
                                       revoked |-> FALSE])
                   /\ blobUrlCache' = cacheSet(blobUrlCache, calls[c].filename, url)
                   /\ calls' = [calls EXCEPT ![c].pc = "done", ![c].url = <<url>>]
          ELSE /\ calls' = [calls EXCEPT ![c].pc = "failed"]
               /\ UNCHANGED <<blobUrlCache, objectUrls>>
  /\ UNCHANGED <<storedRoutes, pc, args, ret, savedRoutes, imageFiles>>

\* refresh(), up to await loadRoutes() (initStorage changes nothing once the
\* images directory exists)
RefreshCall ==
  /\ pc = "hook"
  /\ Len(calls) < MaxCalls
  /\ calls' = Append(calls, [NoCall EXCEPT !.fn = "refresh", !.pc = "loadRoutes"])
  /\ UNCHANGED <<storedRoutes, pc, args, ret, savedRoutes, imageFiles,
                 blobUrlCache, objectUrls>>

\* refresh: the list is loaded; setRoutes(data)
RefreshLoadRoutes ==
  /\ pc = "hook"
  /\ \E c \in DOMAIN calls :
       /\ calls[c].fn = "refresh"
       /\ calls[c].pc = "loadRoutes"
       /\ storedRoutes' = savedRoutes
       /\ calls' = [calls EXCEPT ![c].pc = "done"]
  /\ UNCHANGED <<pc, args, ret, savedRoutes, imageFiles, blobUrlCache, objectUrls>>

NextHook ==
  \/ AddRouteCall
  \/ AddRouteSaveImage
  \/ AddRouteSaveRoutes
  \/ AddImageToRouteCall
  \/ AddImageToRouteSaveImage
  \/ AddImageToRouteSaveRoutes
  \/ DeleteRouteCall
  \/ DeleteRouteDeleteImage
  \/ DeleteRouteSaveRoutes
  \/ GetImageUrlCall
  \/ GetImageUrlLoadImage
  \/ RefreshCall
  \/ RefreshLoadRoutes

SpecHook == InitHook /\ [][NextHook]_vars

\* normalizePoints(points) for the point lists marked on the images
NormalizedOf == [points \in HookPointSets |-> normalizePoints(points)]

\* every image of every route of the list is stored with the normalization
\* of its points
AllNormalized(routes) ==
  \A r \in DOMAIN routes : \A k \in DOMAIN routes[r].images :
    /\ routes[r].images[k].points \in HookPointSets
    /\ routes[r].images[k].normalizedPoints = NormalizedOf[routes[r].images[k].points]

\* the calls that have handed a list to saveRoutes
SaveRoutesCalled == {c \in DOMAIN calls : calls[c].pc \in {"saveRoutes", "done"}}

\* C25: after any addRoute, addImageToRoute and deleteRoute operations, every
\* image of every route in the routes state, and in every list handed to
\* saveRoutes, has normalizedPoints = normalizePoints(points).
C25_StoredNormalized ==
  pc = "hook" =>
    /\ AllNormalized(storedRoutes)
    /\ AllNormalized(savedRoutes)
    /\ \A c \in SaveRoutesCalled : AllNormalized(calls[c].updatedRoutes)

\* a route was added, an image was added to it, and a route was deleted, one
\* operation after the other; the routes state holds a route with two images
C25_Witness ==
  /\ pc = "hook"
  /\ Len(calls) = 3
  /\ calls[1].fn = "addRoute" /\ calls[1].pc = "done"
  /\ calls[2].fn = "addImageToRoute" /\ calls[2].pc = "done"
  /\ calls[2].routes = calls[1].updatedRoutes
  /\ calls[3].fn = "deleteRoute" /\ calls[3].pc = "done"
  /\ calls[3].routes = calls[2].updatedRoutes
  /\ Len(storedRoutes) = 1
  /\ Len(storedRoutes[1].images) = 2
  /\ storedRoutes[1].images[2].points = Diagonal
  /\ savedRoutes = storedRoutes

\* the identifiers of the routes of a list
RouteIds(routes) == {routes[r].id : r \in DOMAIN routes}

\* C26: when deleteRoute(routeId) completes for a route it found in routes,
\* the route is in neither the routes state nor the saved list, the files of
\* its images are deleted, and blobUrlCache has no entry for their filenames.
C26_DeletedRouteGone ==
  [][\A c \in DOMAIN calls :
       (calls[c].fn = "deleteRoute" /\ calls[c].pc = "saveRoutes"
          /\ calls'[c].pc = "done") =>
         /\ calls[c].routeId \notin RouteIds(storedRoutes')
         /\ calls[c].routeId \notin RouteIds(savedRoutes')
         /\ \A k \in DOMAIN calls[c].route[1].images :
              /\ calls[c].route[1].images[k].filename \notin imageFiles'
              /\ calls[c].route[1].images[k].filename \notin DOMAIN blobUrlCache']_vars

\* the calls of fn
CallsOf(fn) == {c \in DOMAIN calls : calls[c].fn = fn}

\* some deleteRoute call found and deleted the route
Deleted(routeId) ==
  \E d \in CallsOf("deleteRoute") : calls[d].routeId = routeId /\ calls[d].route # <<>>

\* the images of the routes of a list
ImageIds(routes) ==
  UNION {{routes[r].images[k].id : k \in DOMAIN routes[r].images} : r \in DOMAIN routes}

\* C27: when calls of addRoute, addImageToRoute and deleteRoute, interleaved
\* in any way, have all completed, the routes state and the saved list hold
\* every route added and not deleted, every image added to such a route, and
\* no deleted route.
C27_NoLostUpdate ==
  (/\ pc = "hook"
   /\ \A c \in DOMAIN calls :
        /\ calls[c].fn \in {"addRoute", "addImageToRoute", "deleteRoute"}
        /\ calls[c].pc = "done") =>
    /\ \A c \in CallsOf("addRoute") :
         ~Deleted(calls[c].routeId) =>
           calls[c].routeId \in RouteIds(storedRoutes) \cap RouteIds(savedRoutes)
    /\ \A c \in CallsOf("addImageToRoute") :
         (findRoute(calls[c].routes, calls[c].routeId) # <<>>
            /\ ~Deleted(calls[c].routeId)) =>
           calls[c].imageId \in ImageIds(storedRoutes) \cap ImageIds(savedRoutes)
    /\ \A c \in CallsOf("deleteRoute") :
         calls[c].route # <<>> =>
           calls[c].routeId \notin RouteIds(storedRoutes) \cup RouteIds(savedRoutes)

\* C28: in every interleaving of getImageUrl and deleteRoute calls, each blob
\* URL created is the one blobUrlCache holds for its filename or has been
\* revoked, so at most one URL per filename is not revoked.
C28_OneLiveUrlPerFile ==
  pc = "hook" =>
    \A url \in DOMAIN objectUrls :
      \/ objectUrls[url].revoked
      \/ cacheGet(blobUrlCache, objectUrls[url].filename) = <<url>>

(***************************************************************************)
(* The earlier, MHD-only searchRoutes (src/lib/matching.ts as it was        *)
(* before the order score was added), and both versions applied to the     *)
(* same query and routes.  normalizePoints, modifiedHausdorffDistance and   *)
(* the body of distanceToSimilarity are the same in both files.             *)
(***************************************************************************)
\* mutant of MHD_ONLY_MAX_DISTANCE: the default of the combined version
MHD_ONLY_MAX_DISTANCE_AsCombined == Rat(6, 10)

\* maxDistance: number = 0.5
MHD_ONLY_MAX_DISTANCE == Rat(5, 10)

\* the score of one image, the body of the inner loop
imageSimilarityMhdOnly(normalizedQuery, image) ==
  LET mhd == modifiedHausdorffDistance(ApproxPoints(normalizedQuery),
                                       ApproxPoints(image.normalizedPoints))
  IN  distanceToSimilarity(mhd, MHD_ONLY_MAX_DISTANCE)

\* bestSimilarity and bestImageId after the inner loop has gone through the
\* first k images
RECURSIVE bestOfMhdOnly(_, _, _)
bestOfMhdOnly(normalizedQuery, images, k) ==
  IF k = 0 THEN [bestSimilarity |-> 0, bestImageId |-> ""]
  ELSE LET prev == bestOfMhdOnly(normalizedQuery, images, k - 1)
           similarity == imageSimilarityMhdOnly(normalizedQuery, images[k])
       IN  IF similarity > prev.bestSimilarity
           THEN [bestSimilarity |-> similarity, bestImageId |-> images[k].id]
           ELSE prev

\* searchRoutes(queryPoints, routes, maxResults) of the MHD-only version
searchRoutesMhdOnly(queryPoints, routes, maxResults) ==
  LET normalizedQuery == normalizePoints(queryPoints)
      results == [r \in DOMAIN routes |->
                    LET best == bestOfMhdOnly(normalizedQuery, routes[r].images,
                                              Len(routes[r].images))
                    IN  [route |-> routes[r], similarity |-> best.bestSimilarity,
                         matchedImageId |-> best.bestImageId]]
      limit == IF maxResults = <<>> THEN DEFAULT_MAX_RESULTS ELSE maxResults[1]
  IN  Slice(SortBySimilarity(results), limit)

\* { maxDistance: 0.5, mhdWeight: 1, orderWeight: 0 }
MhdOnlyOptions ==
  [maxDistance |-> Rat(1, 2), mhdWeight |-> Rat(1, 1), orderWeight |-> Rat(0, 1)]

\* a query close to Square, and the queries of the search specification
CompareQueries == Queries \cup {<<Pt(2, 2), Pt(8, 3), Pt(8, 8), Pt(2, 8)>>}

InitCompare ==
  /\ NoHook
  /\ storedRoutes \in {MkRoutes(shapes) : shapes \in SeqsUpTo(RouteShapes, MaxRoutes)}
  /\ pc = "call"
  /\ args = [fn |-> "searchRoutes (both versions)"]
  /\ ret = <<>>

\* searchRoutes(queryPoints, routes, maxResults, MhdOnlyOptions) of the
\* combined version and searchRoutes(queryPoints, routes, maxResults) of the
\* MHD-only version
CompareCall ==
  /\ pc = "call"
  /\ args.fn = "searchRoutes (both versions)"
  /\ \E queryPoints \in CompareQueries,
        maxResults \in {<<>>} \cup {<<k>> : k \in 0..MaxRoutes} :
       /\ args' = [fn |-> args.fn, queryPoints |-> queryPoints,
                   maxResults |-> maxResults]
       /\ ret' = [combined |-> searchRoutes(queryPoints, storedRoutes, maxResults,
                                            MhdOnlyOptions),
                  mhdOnly |-> searchRoutesMhdOnly(queryPoints, storedRoutes,
                                                  maxResults)]
  /\ pc' = "done"
  /\ UNCHANGED <<storedRoutes, hookVars>>

NextCompare == CompareCall

SpecCompare == InitCompare /\ [][NextCompare]_vars

CompareDone == pc = "done" /\ args.fn = "searchRoutes (both versions)"

\* C29: the combined searchRoutes with options {maxDistance: 0.5,
\* mhdWeight: 1, orderWeight: 0} returns the same sequence of results (routes,
\* order, similarity, matchedImageId) as the MHD-only searchRoutes, for every
\* query, route collection and maxResults.
C29_SameAsMhdOnly ==
  CompareDone => ret.combined = ret.mhdOnly

\* two routes with different scores between 0 and 100 have been ranked, the
\* order score of the best image being neither 0 nor the MHD score
C29_Witness ==
  /\ CompareDone
  /\ Len(ret.mhdOnly) = 2
  /\ ret.mhdOnly[1].similarity > ret.mhdOnly[2].similarity
  /\ ret.mhdOnly[1].similarity < 100
  /\ ret.mhdOnly[2].similarity > 0
  /\ ret.mhdOnly[1].route.id = "route-2"
  /\ relativeOrderSimilarity(args.queryPoints, ret.mhdOnly[1].route.images[1].points)
       \notin {0, ret.mhdOnly[1].similarity}
  /\ ret.combined = ret.mhdOnly

(***************************************************************************)
(* relativeOrderSimilarity applied to two point sets, to the same sets      *)
(* swapped, and to the same sets with the points of one listed in another   *)
(* order.                                                                  *)
(***************************************************************************)
\* longest point set handed to relativeOrderSimilarity
PermMaxLen == 3

\* points with different y, for pointsA and for pointsB
PermPointsA == {Pt(0, 0), Pt(2, 1), Pt(1, 2), Pt(0, 3)}

PermPointsB == {Pt(1, 0), Pt(0, 1), Pt(3, 2)}

\* no two points of the sequence have the same y
DistinctY(points) ==
  \A i, j \in DOMAIN points : i # j => points[i].y # points[j].y

\* the orders in which n points can be listed
Perms(n) == {p \in [1..n -> 1..n] : \A i, j \in 1..n : i # j => p[i] # p[j]}

Permuted(points, p) == [i \in DOMAIN points |-> points[p[i]]]

InitPerm ==
  /\ NoHook
  /\ storedRoutes = <<>>
  /\ pc = "call"
  /\ args \in {a \in [fn : {"relativeOrderSimilarity"},
                      pointsA : SeqsUpTo(PermPointsA, PermMaxLen),
                      pointsB : SeqsUpTo(PermPointsB, PermMaxLen)] :
                 DistinctY(a.pointsA) /\ DistinctY(a.pointsB)}
  /\ ret = <<>>

\* relativeOrderSimilarity(pointsA, pointsB) and
\* relativeOrderSimilarity(pointsB, pointsA)
PermCall ==
  /\ pc = "call"
  /\ args.fn = "relativeOrderSimilarity"
  /\ ret' = [ab |-> relativeOrderSimilarity(args.pointsA, args.pointsB),
             ba |-> relativeOrderSimilarity(args.pointsB, args.pointsA)]
  /\ pc' = "done"
  /\ UNCHANGED <<storedRoutes, args, hookVars>>

\* relativeOrderSimilarity(pointsA2, pointsB) for pointsA2 the points of
\* pointsA in another order
PermACall ==
  /\ pc = "done"
  /\ args.fn = "relativeOrderSimilarity"
  /\ \E p \in Perms(Len(args.pointsA)) :
       LET pointsA2 == Permuted(args.pointsA, p)
       IN  ret' = [ab |-> ret.ab, ba |-> ret.ba,
                   pointsA2 |-> pointsA2, pointsB2 |-> args.pointsB,
                   ab2 |-> relativeOrderSimilarity(pointsA2, args.pointsB)]
  /\ pc' = "permuted"
  /\ UNCHANGED <<storedRoutes, args, hookVars>>

\* relativeOrderSimilarity(pointsA, pointsB2) for pointsB2 the points of
\* pointsB in another order
PermBCall ==
  /\ pc = "done"
  /\ args.fn = "relativeOrderSimilarity"
  /\ \E q \in Perms(Len(args.pointsB)) :
       LET pointsB2 == Permuted(args.pointsB, q)
       IN  ret' = [ab |-> ret.ab, ba |-> ret.ba,
                   pointsA2 |-> args.pointsA, pointsB2 |-> pointsB2,
                   ab2 |-> relativeOrderSimilarity(args.pointsA, pointsB2)]
  /\ pc' = "permuted"
  /\ UNCHANGED <<storedRoutes, args, hookVars>>

NextPerm == PermCall \/ PermACall \/ PermBCall

SpecPerm == InitPerm /\ [][NextPerm]_vars

\* C30: when no two points of A have the same y and no two points of B have
\* the same y, relativeOrderSimilarity(A, B) is the same for every order in
\* which the points of A or of B are listed, and equals
\* relativeOrderSimilarity(B, A).
C30_OrderOfListingIrrelevant ==
  (/\ pc \in {"done", "permuted"}
   /\ args.fn = "relativeOrderSimilarity"
   /\ DistinctY(args.pointsA) /\ DistinctY(args.pointsB)) =>
    /\ ret.ab = ret.ba
    /\ pc = "permuted" => ret.ab2 = ret.ab

\* three points of A listed in another order, against three points of B, with
\* a score that is neither 0 nor 100
C30_Witness ==
  /\ pc = "permuted"
  /\ args.fn = "relativeOrderSimilarity"
  /\ Len(args.pointsA) = 3 /\ Len(args.pointsB) = 3
  /\ args.pointsA # SortByY(args.pointsA)
  /\ ret.pointsA2 = <<args.pointsA[3], args.pointsA[1], args.pointsA[2]>>
  /\ ret.ab \in 1..99
  /\ ret.ab2 = ret.ab
  /\ ret.ba = ret.ab

====
